---- MODULE Spec2Model ----
(***************************************************************************)
(* A model of the nist-fingerprint core: the EFT record parser             *)
(* (src/src/eft-parser.js) and the WSQ decoder (src/src/wsq-decoder.js).   *)
(*                                                                         *)
(* Byte buffers are sequences of integers 0..255; a byte offset o of the   *)
(* source is element o + 1 of the sequence.  JavaScript strings are        *)
(* sequences of character codes.  A JavaScript number that may be NaN is a *)
(* record [nan, v].                                                        *)
(***************************************************************************)
EXTENDS Integers, Sequences, FiniteSets, TLC

\* parseEft: its argument, its locals, its position, and how it ended.
VARIABLES eftBuf, eftOffset, epc, type1, recordList, type2, type4Records, entryIdx,
          type4Offsets, eftResult, eftError

\* decodeWsq: the Token, the frame header, the locals of the Huffman loop,
\* the float raster and its scratch copy, the node reconstruction has reached,
\* the position of the call, and how it ended.
VARIABLES tok, frame, huff, fdata, fdataTemp, node, pc, wsqResult, wsqError

\* The calls a session may still make and the outcomes of its earlier calls.
VARIABLES callsLeft, seen

wvars == <<tok, frame, huff, fdata, fdataTemp, node, pc, wsqResult, wsqError,
           callsLeft, seen>>

evars == <<eftBuf, eftOffset, epc, type1, recordList, type2, type4Records, entryIdx,
           type4Offsets, eftResult, eftError>>

\* A call of one of the CLI helpers: the finger argument, the records
\* argument, the position of the call, and how it ended.
VARIABLES fingerOpt, helperRecords, hpc, helperResult

hvars == <<fingerOpt, helperRecords, hpc, helperResult>>

\* A function of the decoder called on its own: its arguments, the position
\* of the call, and what it returned.
VARIABLES fnArgs, fpc, fnResult

fvars == <<fnArgs, fpc, fnResult>>

vars == <<evars, wvars, hvars, fvars>>

\* ------------------------------------------------------------------------
\* Bounds of the model
\* ------------------------------------------------------------------------

\* Longest CNT list (entries after subfield 0) of a generated EFT input.
MaxCnt == 3

\* Largest number of physical Type-4 records of a generated EFT input.
MaxRecs == 2

\* ------------------------------------------------------------------------
\* Program constants
\* ------------------------------------------------------------------------

FS == 28

GS == 29

RS == 30

US == 31

TYPE4_HEADER_SIZE == 18

\* ------------------------------------------------------------------------
\* JavaScript / Node primitives used by the parser
\* ------------------------------------------------------------------------

Min(a, b) == IF a < b THEN a ELSE b

Max(a, b) == IF a > b THEN a ELSE b

NaN == [nan |-> TRUE, v |-> 0]

Num(n) == [nan |-> FALSE, v |-> n]

\* An optional value (undefined / null in the source) is <<>> or <<v>>.
None == <<>>

Some(v) == <<v>>

\* Relative index of TypedArray.prototype.subarray / slice: a negative index
\* counts from the end, and the result is clamped to 0..len.
RelIndex(i, len) == IF i < 0 THEN Max(len + i, 0) ELSE Min(i, len)

\* buf.subarray(begin, end)
Subarray(buf, begin, end) ==
    LET b == RelIndex(begin, Len(buf))
        e == RelIndex(end, Len(buf))
    IN  IF e <= b THEN <<>> ELSE SubSeq(buf, b + 1, e)

\* Where a forward Buffer.indexOf search for one byte starts: a negative
\* byteOffset counts from the end (the whole buffer when before its start);
\* -1 (no match) when the offset leaves no room for the byte.
IndexOfOffset(len, byteOffset) ==
    IF byteOffset < 0
    THEN (IF byteOffset + len >= 0 THEN len + byteOffset ELSE 0)
    ELSE (IF byteOffset + 1 <= len THEN byteOffset ELSE -1)

\* buf.indexOf(value, byteOffset) for a byte value: 0-based position or -1.
BufIndexOf(buf, value, byteOffset) ==
    LET start == IndexOfOffset(Len(buf), byteOffset)
        hits  == IF start = -1 THEN {}
                 ELSE {i \in start .. Len(buf) - 1 : buf[i + 1] = value}
    IN  IF hits = {} THEN -1
        ELSE CHOOSE i \in hits : \A j \in hits : i <= j

\* buf.toString('ascii'): every byte loses its high bit.
ToAscii(bytes) == [i \in 1 .. Len(bytes) |-> bytes[i] % 128]

\* str.indexOf(ch): 0-based position of the first ch, or -1.
StrIndexOf(str, ch) ==
    LET hits == {i \in 1 .. Len(str) : str[i] = ch}
    IN  IF hits = {} THEN -1
        ELSE (CHOOSE i \in hits : \A j \in hits : i <= j) - 1

\* str.substring(a, b) for 0 <= a <= b <= length.
Substring(str, a, b) == SubSeq(str, a + 1, b)

\* str.split(sep) for a one-character separator: always at least one part.
RECURSIVE Split(_, _)
Split(str, sep) ==
    LET p == StrIndexOf(str, sep)
    IN  IF p = -1 THEN <<str>>
        ELSE <<Substring(str, 0, p)>> \o Split(Substring(str, p + 1, Len(str)), sep)

IsDigit(c) == c >= 48 /\ c <= 57

\* StrWhiteSpaceChar among the 7-bit codes: TAB, LF, VT, FF, CR, SP.
IsSpace(c) == c \in {9, 10, 11, 12, 13, 32}

RECURSIVE SkipSpaces(_)
SkipSpaces(str) ==
    IF str # <<>> /\ IsSpace(Head(str)) THEN SkipSpaces(Tail(str)) ELSE str

\* str.toLowerCase() on 7-bit strings.
ToLowerCase(str) ==
    [i \in 1 .. Len(str) |-> IF str[i] >= 65 /\ str[i] <= 90 THEN str[i] + 32 ELSE str[i]]

\* \w of a regular expression: letters, digits and '_'.
IsWordChar(c) ==
    \/ c >= 48 /\ c <= 57
    \/ c >= 65 /\ c <= 90
    \/ c >= 97 /\ c <= 122
    \/ c = 95

\* c.toUpperCase() for one 7-bit character.
ToUpperChar(c) == IF c >= 97 /\ c <= 122 THEN c - 32 ELSE c

RECURSIVE SkipSpacesEnd(_)
SkipSpacesEnd(str) ==
    IF str # <<>> /\ IsSpace(str[Len(str)])
    THEN SkipSpacesEnd(SubSeq(str, 1, Len(str) - 1)) ELSE str

\* str.trim()
Trim(str) == SkipSpacesEnd(SkipSpaces(str))

\* parts.join(sep) for an array of strings.
RECURSIVE Join(_, _)
Join(parts, sep) ==
    IF parts = <<>> THEN <<>>
    ELSE IF Len(parts) = 1 THEN parts[1]
    ELSE parts[1] \o sep \o Join(Tail(parts), sep)

\* The longest prefix of str without whitespace.
RECURSIVE WordPrefix(_)
WordPrefix(str) ==
    IF str = <<>> \/ IsSpace(Head(str)) THEN <<>>
    ELSE <<Head(str)>> \o WordPrefix(Tail(str))

\* str.split(/\s+/): the pieces between the runs of whitespace; a run at
\* either end leaves an empty piece there, and '' gives [''].
RECURSIVE SplitSpaces(_)
SplitSpaces(str) ==
    LET word == WordPrefix(str)
        rest == SubSeq(str, Len(word) + 1, Len(str))
    IN  IF rest = <<>> THEN <<word>>
        ELSE <<word>> \o SplitSpaces(SkipSpaces(rest))

\* The value of the longest prefix of decimal digits of str, after acc.
RECURSIVE DigitsValue(_, _)
DigitsValue(str, acc) ==
    IF str # <<>> /\ IsDigit(Head(str))
    THEN DigitsValue(Tail(str), 10 * acc + (Head(str) - 48))
    ELSE acc

\* parseInt(str, 10); parseInt(undefined, 10) is NaN.
ParseInt(optStr) ==
    IF optStr = None THEN NaN
    ELSE LET s    == SkipSpaces(optStr[1])
             neg  == s # <<>> /\ Head(s) = 45
             sgn  == s # <<>> /\ Head(s) \in {43, 45}
             body == IF sgn THEN Tail(s) ELSE s
         IN  IF body = <<>> \/ ~IsDigit(Head(body)) THEN NaN
             ELSE Num(IF neg THEN 0 - DigitsValue(body, 0) ELSE DigitsValue(body, 0))

\* obj[key] = value on a plain object kept as a function on its keys.
Put(obj, key, value) ==
    [k \in DOMAIN obj \cup {key} |-> IF k = key THEN value ELSE obj[k]]

\* obj[key], undefined when absent.
Get(obj, key) == IF key \in DOMAIN obj THEN Some(obj[key]) ELSE None

EmptyObj == [k \in {} |-> <<>>]

\* ------------------------------------------------------------------------
\* EFT parser: pure parts (src/src/eft-parser.js)
\* ------------------------------------------------------------------------

\* new EftParseError(message, {offset, recordType}): absent members are null.
EftParseError(msg, offset, recordType) ==
    [kind |-> "EftParseError", msg |-> msg, offset |-> offset, recordType |-> recordType]

\* The error Node raises when readUInt32BE is given an offset outside the buffer.
RangeError(offset) ==
    [kind |-> "RangeError", msg |-> "ERR_OUT_OF_RANGE", offset |-> Some(offset),
     recordType |-> None]

NoError == [kind |-> "none", msg |-> "", offset |-> None, recordType |-> None]

\* `${recordType}.01`
LenFieldTag(recordType) == <<48 + recordType, 46, 48, 49>>

\* The loop of parseAsciiRecord over the GS-separated field strings: the
\* fields object and the recordLength it leaves (0 until the tag is seen).
RECURSIVE AsciiFields(_, _, _, _)
AsciiFields(fieldStrs, lenFieldTag, fields, recordLength) ==
    IF fieldStrs = <<>> THEN [fields |-> fields, recordLength |-> recordLength]
    ELSE LET fieldStr == Head(fieldStrs)
             colonIdx == StrIndexOf(fieldStr, 58)
             tag      == Substring(fieldStr, 0, colonIdx)
             value    == Substring(fieldStr, colonIdx + 1, Len(fieldStr))
         IN  IF colonIdx = -1
             THEN AsciiFields(Tail(fieldStrs), lenFieldTag, fields, recordLength)
             ELSE AsciiFields(Tail(fieldStrs), lenFieldTag, Put(fields, tag, value),
                              IF tag = lenFieldTag THEN ParseInt(Some(value))
                              ELSE recordLength)

\* parseAsciiRecord with the observed span always taken for the length.
parseAsciiRecord_SpanOnly(buf, offset, recordType) ==
    LET fsPos     == BufIndexOf(buf, FS, offset)
        recordBuf == Subarray(buf, offset, fsPos + 1)
        ascii     == ToAscii(Subarray(recordBuf, 0, Len(recordBuf) - 1))
        parsed    == AsciiFields(Split(ascii, GS), LenFieldTag(recordType),
                                 EmptyObj, Num(0))
    IN  IF fsPos = -1
        THEN [ok |-> FALSE, fields |-> EmptyObj, length |-> 0, fsPos |-> fsPos,
              err |-> EftParseError("No FS terminator", Some(offset), Some(recordType))]
        ELSE [ok |-> TRUE, fields |-> parsed.fields, length |-> fsPos - offset + 1,
              fsPos |-> fsPos, err |-> NoError]

\* parseAsciiRecord with the FS searched from the start of the buffer.
parseAsciiRecord_SearchFromStart(buf, offset, recordType) ==
    LET fsPos     == BufIndexOf(buf, FS, 0)
        recordBuf == Subarray(buf, offset, fsPos + 1)
        ascii     == ToAscii(Subarray(recordBuf, 0, Len(recordBuf) - 1))
        parsed    == AsciiFields(Split(ascii, GS), LenFieldTag(recordType),
                                 EmptyObj, Num(0))
        declared  == parsed.recordLength
        length    == IF declared.nan \/ declared.v = 0 THEN fsPos - offset + 1
                     ELSE declared.v
    IN  IF fsPos = -1
        THEN [ok |-> FALSE, fields |-> EmptyObj, length |-> 0, fsPos |-> fsPos,
              err |-> EftParseError("No FS terminator", Some(offset), Some(recordType))]
        ELSE [ok |-> TRUE, fields |-> parsed.fields, length |-> length, fsPos |-> fsPos,
              err |-> NoError]

\* parseAsciiRecord(buf, offset, recordType): {fields, length} or an error.
parseAsciiRecord(buf, offset, recordType) ==
    LET fsPos     == BufIndexOf(buf, FS, offset)
        recordBuf == Subarray(buf, offset, fsPos + 1)
        ascii     == ToAscii(Subarray(recordBuf, 0, Len(recordBuf) - 1))
        parsed    == AsciiFields(Split(ascii, GS), LenFieldTag(recordType),
                                 EmptyObj, Num(0))
        declared  == parsed.recordLength
        length    == IF declared.nan \/ declared.v = 0 THEN fsPos - offset + 1
                     ELSE declared.v
    IN  IF fsPos = -1
        THEN [ok |-> FALSE, fields |-> EmptyObj, length |-> 0, fsPos |-> fsPos,
              err |-> EftParseError("No FS terminator", Some(offset), Some(recordType))]
        ELSE [ok |-> TRUE, fields |-> parsed.fields, length |-> length, fsPos |-> fsPos,
              err |-> NoError]

\* The loop of parseCnt over subfields[i..]: the {type, idc} records, or the
\* first malformed subfield.
RECURSIVE CntRecords(_, _, _)
CntRecords(subfields, i, records) ==
    IF i > Len(subfields) THEN [ok |-> TRUE, records |-> records, err |-> NoError]
    ELSE LET parts == Split(subfields[i], US)
             type  == ParseInt(Some(parts[1]))
             idc   == ParseInt(IF Len(parts) >= 2 THEN Some(parts[2]) ELSE None)
         IN  IF type.nan \/ idc.nan
             THEN [ok |-> FALSE, records |-> <<>>,
                   err |-> EftParseError("Malformed CNT", None, Some(1))]
             ELSE CntRecords(subfields, i + 1,
                             Append(records, [type |-> type.v, idc |-> idc.v]))

\* parseCnt(cntValue): subfield 0 (element 1 here) is skipped.
parseCnt(cntValue) ==
    IF cntValue = None \/ cntValue = Some(<<>>)
    THEN [ok |-> FALSE, records |-> <<>>,
          err |-> EftParseError("Missing CNT", None, Some(1))]
    ELSE CntRecords(Split(cntValue[1], RS), 2, <<>>)

\* buf.readUInt32BE(offset) and buf.readUInt16BE(offset), offset in range.
ReadUInt32BE(buf, offset) ==
    ((buf[offset + 1] * 256 + buf[offset + 2]) * 256 + buf[offset + 3]) * 256
        + buf[offset + 4]

ReadUInt16BE(buf, offset) == buf[offset + 1] * 256 + buf[offset + 2]

\* The record parseType4 returns once its checks have passed (the label-only
\* names are left out).
Type4Record(buf, offset, len) ==
    [length         |-> len,
     idc            |-> buf[offset + 5],
     impressionType |-> buf[offset + 6],
     fingerPosition |-> buf[offset + 7],
     ppi            |-> IF buf[offset + 13] = 0 THEN 500 ELSE buf[offset + 13],
     width          |-> ReadUInt16BE(buf, offset + 13),
     height         |-> ReadUInt16BE(buf, offset + 15),
     compression    |-> buf[offset + 18],
     imageData      |-> Subarray(buf, offset + TYPE4_HEADER_SIZE, offset + len)]

NoRecord == [length |-> 0]

\* parseType4 without the check of the declared extent against the buffer.
parseType4_NoExtentCheck(buf, offset, expectedIdc) ==
    IF offset + TYPE4_HEADER_SIZE > Len(buf)
    THEN [ok |-> FALSE, rec |-> NoRecord,
          err |-> EftParseError("exceeds buffer", Some(offset), Some(4))]
    ELSE IF offset < 0
    THEN [ok |-> FALSE, rec |-> NoRecord, err |-> RangeError(offset)]
    ELSE LET len == ReadUInt32BE(buf, offset)
         IN  IF len < TYPE4_HEADER_SIZE
             THEN [ok |-> FALSE, rec |-> NoRecord,
                   err |-> EftParseError("smaller than header", Some(offset), Some(4))]
             ELSE IF buf[offset + 5] # expectedIdc
             THEN [ok |-> FALSE, rec |-> NoRecord,
                   err |-> EftParseError("IDC mismatch", Some(offset), Some(4))]
             ELSE [ok |-> TRUE, rec |-> Type4Record(buf, offset, len), err |-> NoError]

\* parseType4 without the check of the IDC byte against the CNT entry.
parseType4_NoIdcCheck(buf, offset, expectedIdc) ==
    IF offset + TYPE4_HEADER_SIZE > Len(buf)
    THEN [ok |-> FALSE, rec |-> NoRecord,
          err |-> EftParseError("exceeds buffer", Some(offset), Some(4))]
    ELSE IF offset < 0
    THEN [ok |-> FALSE, rec |-> NoRecord, err |-> RangeError(offset)]
    ELSE LET len == ReadUInt32BE(buf, offset)
         IN  IF len < TYPE4_HEADER_SIZE
             THEN [ok |-> FALSE, rec |-> NoRecord,
                   err |-> EftParseError("smaller than header", Some(offset), Some(4))]
             ELSE IF offset + len > Len(buf)
             THEN [ok |-> FALSE, rec |-> NoRecord,
                   err |-> EftParseError("exceeds buffer", Some(offset), Some(4))]
             ELSE [ok |-> TRUE, rec |-> Type4Record(buf, offset, len), err |-> NoError]

\* parseType4(buf, offset, expectedIdc): a record or an error.  The length
\* read at a negative offset is the RangeError of readUInt32BE.
parseType4(buf, offset, expectedIdc) ==
    IF offset + TYPE4_HEADER_SIZE > Len(buf)
    THEN [ok |-> FALSE, rec |-> NoRecord,
          err |-> EftParseError("exceeds buffer", Some(offset), Some(4))]
    ELSE IF offset < 0
    THEN [ok |-> FALSE, rec |-> NoRecord, err |-> RangeError(offset)]
    ELSE LET len == ReadUInt32BE(buf, offset)
         IN  IF len < TYPE4_HEADER_SIZE
             THEN [ok |-> FALSE, rec |-> NoRecord,
                   err |-> EftParseError("smaller than header", Some(offset), Some(4))]
             ELSE IF offset + len > Len(buf)
             THEN [ok |-> FALSE, rec |-> NoRecord,
                   err |-> EftParseError("exceeds buffer", Some(offset), Some(4))]
             ELSE IF buf[offset + 5] # expectedIdc
             THEN [ok |-> FALSE, rec |-> NoRecord,
                   err |-> EftParseError("IDC mismatch", Some(offset), Some(4))]
             ELSE [ok |-> TRUE, rec |-> Type4Record(buf, offset, len), err |-> NoError]

\* titleCase(str): lower-case, then upper-case every match of /\b\w/g.
titleCase(str) ==
    LET lower == ToLowerCase(str)
    IN  [i \in 1 .. Len(lower) |->
            IF IsWordChar(lower[i]) /\ (i = 1 \/ ~IsWordChar(lower[i - 1]))
            THEN ToUpperChar(lower[i]) ELSE lower[i]]

\* arr[i] ?? undefined for a 0-based index.
ElementAt(arr, i) == IF i + 1 <= Len(arr) THEN Some(arr[i + 1]) ELSE None

\* opt?.trim() || ''
TrimOrEmpty(opt) == IF opt = None THEN <<>> ELSE Trim(opt[1])

\* The name object parseType2Demographics builds from a non-empty 2.018.
SubjectName(value) ==
    LET nameParts        == Split(value, 44)
        firstMiddle      == TrimOrEmpty(ElementAt(nameParts, 1))
        firstMiddleParts == SplitSpaces(firstMiddle)
    IN  [first  |-> titleCase(firstMiddleParts[1]),
         middle |-> titleCase(Join(Tail(firstMiddleParts), <<32>>)),
         last   |-> titleCase(TrimOrEmpty(ElementAt(nameParts, 0)))]

\* [first, middle, last].filter(Boolean).join(' ')
FullName(name) ==
    Join(SelectSeq(<<name.first, name.middle, name.last>>, LAMBDA part : part # <<>>), <<32>>)

\* fields[tag] is truthy: present and not ''.
HasValue(fields, tag) == Get(fields, tag) # None /\ Get(fields, tag) # Some(<<>>)

\* parseType2Demographics(fields): the raw tag map, name and fullName (null is
\* None); the other derived members are computed from raw by operations that
\* cannot fail.
parseType2Demographics(fields) ==
    LET tag  == <<50, 46, 48, 49, 56>>
        name == IF HasValue(fields, tag) THEN Some(SubjectName(fields[tag])) ELSE None
    IN  [raw      |-> fields,
         name     |-> name,
         fullName |-> IF name # None THEN Some(FullName(name[1])) ELSE None]

\* ------------------------------------------------------------------------
\* EFT inputs: byte sequences built from a few choices
\* ------------------------------------------------------------------------

\* The decimal digits of a natural number.
RECURSIVE Digits(_)
Digits(n) == IF n < 10 THEN <<48 + n>> ELSE Digits(n \div 10) \o <<48 + (n % 10)>>

\* The total length of a record whose bytes other than the digits of its own
\* declared length number `base`.
ExactLen(base) ==
    IF base + 1 < 10 THEN base + 1 ELSE IF base + 2 < 100 THEN base + 2 ELSE base + 3

\* How a generated ASCII record declares its length in T.01.
DeclModes == {"exact", "absent", "zero", "nonnum", "neg", "big", "short", "nofs"}

DeclString(mode, total) ==
    CASE mode = "exact"  -> Digits(total)
      [] mode = "zero"   -> <<48>>
      [] mode = "nonnum" -> <<97, 98, 99>>
      [] mode = "neg"    -> <<45, 57, 57>>
      [] mode = "big"    -> <<57, 57, 57>>
      [] mode = "short"  -> Digits(total - 2)
      [] OTHER           -> <<>>

\* An ASCII record "T.01:<decl> GS <rest> FS" (without T.01 when absent, and
\* with an exact T.01 but without its FS for "nofs").
AsciiRecord(recordType, mode, rest) ==
    IF mode = "absent" THEN rest \o <<FS>>
    ELSE IF mode = "nofs"
    THEN LenFieldTag(recordType) \o <<58>>
            \o Digits(ExactLen(Len(rest) + 7)) \o <<GS>> \o rest
    ELSE LenFieldTag(recordType) \o <<58>>
            \o DeclString(mode, ExactLen(Len(rest) + 7)) \o <<GS>> \o rest \o <<FS>>

\* The CNT entries a generated manifest draws from: {type, idc}.
CntEntries == {<<2, 0>>, <<4, 1>>, <<4, 2>>, <<7, 1>>, <<3, 2>>}

RECURSIVE SeqsUpTo(_, _)
SeqsUpTo(S, n) ==
    IF n = 0 THEN {<<>>}
    ELSE LET shorter == SeqsUpTo(S, n - 1)
         IN  shorter \cup {Append(q, x) : q \in {r \in shorter : Len(r) = n - 1}, x \in S}

\* "1 US <count> RS <type> US <idc> RS ..." for a list of entries.
RECURSIVE CntTail(_)
CntTail(entries) ==
    IF entries = <<>> THEN <<>>
    ELSE <<RS>> \o Digits(Head(entries)[1]) \o <<US>> \o Digits(Head(entries)[2])
            \o CntTail(Tail(entries))

CntValue(entries) == <<49, US>> \o Digits(Len(entries) + 1) \o CntTail(entries)

\* The manifest variants: well-formed lists; a further subfield "abc US 1";
\* a further subfield without its idc; an empty or absent 1.03; the list
\* "4x US 1"; subfield 0 "abc"; the list "4 US 1 US 9"; a list ending in RS.
CntModes == {"list", "badtype", "noidc", "empty", "missing", "suffix", "head0", "extra",
             "trailing"}

Type1Rest(cntMode, entries) ==
    CASE cntMode = "list"    -> <<49, 46, 48, 51, 58>> \o CntValue(entries)
      [] cntMode = "badtype" -> <<49, 46, 48, 51, 58>> \o CntValue(entries)
                                   \o <<RS, 97, 98, 99, US, 49>>
      [] cntMode = "noidc"   -> <<49, 46, 48, 51, 58>> \o CntValue(entries) \o <<RS, 52>>
      [] cntMode = "empty"   -> <<49, 46, 48, 51, 58>>
      [] cntMode = "suffix"  -> <<49, 46, 48, 51, 58>> \o <<49, US, 50, RS, 52, 120, US, 49>>
      [] cntMode = "head0"   -> <<49, 46, 48, 51, 58>> \o <<97, 98, 99, RS, 52, US, 49>>
      [] cntMode = "extra"   -> <<49, 46, 48, 51, 58>> \o <<49, US, 50, RS, 52, US, 49, US, 57>>
      [] cntMode = "trailing" -> <<49, 46, 48, 51, 58>> \o CntValue(entries) \o <<RS>>
      [] OTHER               -> <<49, 46, 48, 50, 58, 48>>

\* A four-byte big-endian length below 2^16.
U32(n) == <<0, 0, n \div 256, n % 256>>

\* What is wrong with the last physical Type-4 record, if anything: a declared
\* length below the header size, one byte over its extent, far beyond the
\* file, or an IDC byte that is not its rank.
RecFaults == {"none", "short", "over", "long", "idc"}

\* A physical Type-4 record: 18 header bytes and one byte of image data.
Type4Bytes(idc, fault) ==
    LET actual == TYPE4_HEADER_SIZE + 1
        decl   == CASE fault = "short" -> TYPE4_HEADER_SIZE - 1
                    [] fault = "over"  -> actual + 1
                    [] fault = "long"  -> actual + 40
                    [] OTHER           -> actual
    IN  U32(decl) \o <<IF fault = "idc" THEN idc + 1 ELSE idc>>
            \o <<1, 6, 0, 0, 0, 0, 0, 0, 0, 1, 0, 1, 1>> \o <<170>>

\* Physical records first .. count with IDC equal to their rank; the fault is
\* in the last one.
RECURSIVE Type4Run(_, _, _)
Type4Run(first, count, fault) ==
    IF first > count THEN <<>>
    ELSE Type4Bytes(first, IF first = count THEN fault ELSE "none")
            \o Type4Run(first + 1, count, fault)

\* The fields of a generated Type-2 record after 2.01: "2.02:0", and the
\* 2.018 tag with the given value when there is one.
Type2Rest(name) ==
    <<50, 46, 48, 50, 58, 48>>
        \o (IF name = None THEN <<>> ELSE <<GS, 50, 46, 48, 49, 56, 58>> \o name[1])

EftBytes(p) ==
    IF p.noFS THEN SubSeq(<<49, 46, 48, 49, 58, 53>>, 1, 6 * p.count)
    ELSE AsciiRecord(1, p.decl1, Type1Rest(p.cntMode, p.entries))
            \o AsciiRecord(2, p.decl2, Type2Rest(p.name))
            \o Type4Run(1, p.count, p.fault)
            \o [i \in 1 .. p.trailing |-> 0]

\* The generated inputs: every declared-length mode on the plain one-record
\* file; every manifest list against every run of physical records; the
\* malformed manifests; inputs without any FS byte, the empty one included;
\* the values of 2.018 on a file without Type-4 records.
\* The values of tag 2.018 of the generated Type-2 records.
NameInputs ==
    {Some(<<>>),
     Some(<<68, 79, 69, 44, 74, 79, 72, 78, 32, 81>>),    \* 'DOE,JOHN Q'
     Some(<<68, 79, 69, 44, 74, 79, 72, 78>>),    \* 'DOE,JOHN'
     Some(<<68, 79, 69>>),    \* 'DOE'
     Some(<<68, 79, 69, 44>>),    \* 'DOE,'
     Some(<<44, 74, 79, 72, 78, 32, 77, 73, 67, 72, 65, 69, 76>>),    \* ',JOHN MICHAEL'
     Some(<<68, 79, 69, 44, 74, 79, 72, 78, 44, 74, 82>>),    \* 'DOE,JOHN,JR'
     Some(<<68, 79, 69, 44, 32, 74, 79, 72, 78, 32, 32, 81, 85, 73, 78, 67, 89, 32, 65, 68, 65, 77, 83>>),    \* 'DOE, JOHN  QUINCY ADAMS'
     Some(<<111, 39, 98, 114, 105, 101, 110, 44, 109, 97, 114, 121, 45, 97, 110, 110, 32, 108, 101, 101>>),    \* 'o'brien,mary-ann lee'
     Some(<<32>>),    \* ' '
     Some(<<68, 79, 69, 32, 44, 74, 79, 72, 78, 9, 81>>),    \* 'DOE ,JOHN<TAB>Q'
     Some(<<44>>),    \* ','
     Some(<<65, 44, 66, 32, 67, 44, 68, 32, 69>>),    \* 'A,B C,D E'
     Some(<<68, 79, 69, 32, 74, 79, 72, 78>>)    \* 'DOE JOHN'
    }

EftParams ==
    {[noFS |-> FALSE, decl1 |-> d1, decl2 |-> d2, cntMode |-> "list",
      entries |-> <<<<2, 0>>, <<4, 1>>>>, count |-> 1, fault |-> "none", trailing |-> t, name |-> None] :
        d1 \in DeclModes, d2 \in DeclModes, t \in 0 .. 1}
    \cup
    {[noFS |-> FALSE, decl1 |-> "exact", decl2 |-> "exact", cntMode |-> "list",
      entries |-> es, count |-> n, fault |-> f, trailing |-> t, name |-> None] :
        es \in SeqsUpTo(CntEntries, MaxCnt), n \in 0 .. MaxRecs, f \in RecFaults,
        t \in 0 .. 1}
    \cup
    {[noFS |-> nf, decl1 |-> "exact", decl2 |-> "exact", cntMode |-> cm,
      entries |-> <<<<4, 1>>>>, count |-> n, fault |-> "none", trailing |-> 0, name |-> None] :
        cm \in CntModes, nf \in BOOLEAN, n \in 0 .. 1}
    \cup
    {[noFS |-> FALSE, decl1 |-> "exact", decl2 |-> "exact", cntMode |-> "list",
      entries |-> <<<<2, 0>>>>, count |-> 0, fault |-> "none", trailing |-> 0, name |-> n] :
        n \in NameInputs}

\* ------------------------------------------------------------------------
\* parseEft as a state machine (src/src/eft-parser.js, lines 11-48)
\* ------------------------------------------------------------------------

NoAscii == [fields |-> EmptyObj, length |-> 0]

\* No function is called on its own while parseEft, decodeWsq or a helper runs.
FnIdle ==
    /\ fnArgs = None
    /\ fpc = "idle"
    /\ fnResult = None

\* No helper is called while parseEft or decodeWsq runs.
HelpersIdle ==
    /\ fingerOpt = None
    /\ helperRecords = <<>>
    /\ hpc = "idle"
    /\ helperResult = None

\* decodeWsq is not called while parseEft runs.
WsqIdle ==
    /\ tok = None
    /\ frame = None
    /\ huff = None
    /\ fdata = <<>>
    /\ fdataTemp = <<>>
    /\ node = 0
    /\ pc = "idle"
    /\ wsqResult = None
    /\ wsqError = None
    /\ callsLeft = 0
    /\ seen = <<>>

EftInit ==
    /\ WsqIdle
    /\ HelpersIdle
    /\ FnIdle
    /\ \E p \in EftParams : eftBuf = EftBytes(p)
    /\ eftOffset = 0
    /\ epc = "type1"
    /\ type1 = NoAscii
    /\ recordList = <<>>
    /\ type2 = NoAscii
    /\ type4Records = <<>>
    /\ entryIdx = 1
    /\ type4Offsets = <<>>
    /\ eftResult = None
    /\ eftError = NoError

\* A throw: the call ends with the error and returns nothing.
EftThrow(err) ==
    /\ epc' = "error"
    /\ eftError' = err
    /\ UNCHANGED eftResult

\* const type1 = parseAsciiRecord(buf, offset, 1); offset += type1.length
EftType1 ==
    /\ UNCHANGED <<wvars, hvars, fvars>>
    /\ epc = "type1"
    /\ LET r == parseAsciiRecord(eftBuf, eftOffset, 1)
       IN  IF r.ok
           THEN /\ type1' = [fields |-> r.fields, length |-> r.length]
                /\ eftOffset' = eftOffset + r.length
                /\ epc' = "cnt"
                /\ UNCHANGED <<eftResult, eftError>>
           ELSE /\ EftThrow(r.err)
                /\ UNCHANGED <<type1, eftOffset>>
    /\ UNCHANGED <<eftBuf, recordList, type2, type4Records, entryIdx, type4Offsets>>

\* const recordList = parseCnt(type1.fields['1.03'])
EftCnt ==
    /\ UNCHANGED <<wvars, hvars, fvars>>
    /\ epc = "cnt"
    /\ LET r == parseCnt(Get(type1.fields, <<49, 46, 48, 51>>))
       IN  IF r.ok
           THEN /\ recordList' = r.records
                /\ epc' = "type2"
                /\ UNCHANGED <<eftResult, eftError>>
           ELSE /\ EftThrow(r.err)
                /\ UNCHANGED recordList
    /\ UNCHANGED <<eftBuf, eftOffset, type1, type2, type4Records, entryIdx, type4Offsets>>

\* const type2 = parseAsciiRecord(buf, offset, 2); offset += type2.length
EftType2 ==
    /\ UNCHANGED <<wvars, hvars, fvars>>
    /\ epc = "type2"
    /\ LET r == parseAsciiRecord(eftBuf, eftOffset, 2)
       IN  IF r.ok
           THEN /\ type2' = [fields |-> r.fields, length |-> r.length]
                /\ eftOffset' = eftOffset + r.length
                /\ epc' = "records"
                /\ UNCHANGED <<eftResult, eftError>>
           ELSE /\ EftThrow(r.err)
                /\ UNCHANGED <<type2, eftOffset>>
    /\ UNCHANGED <<eftBuf, type1, recordList, type4Records, entryIdx, type4Offsets>>

\* The loop body with a type-2 entry taken for a one-byte record.
EftEntry_Type2Advances ==
    /\ UNCHANGED <<wvars, hvars, fvars>>
    /\ epc = "records"
    /\ entryIdx <= Len(recordList)
    /\ LET entry == recordList[entryIdx]
           r     == parseType4(eftBuf, eftOffset, entry.idc)
       IN  IF entry.type = 2
           THEN /\ entryIdx' = entryIdx + 1
                /\ eftOffset' = eftOffset + 1
                /\ UNCHANGED <<epc, type4Records, type4Offsets, eftResult, eftError>>
           ELSE IF entry.type # 4
           THEN /\ EftThrow(EftParseError("Unsupported record type", None, Some(entry.type)))
                /\ UNCHANGED <<eftOffset, type4Records, type4Offsets, entryIdx>>
           ELSE IF r.ok
           THEN /\ type4Records' = Append(type4Records, r.rec)
                /\ type4Offsets' = Append(type4Offsets, eftOffset)
                /\ eftOffset' = eftOffset + r.rec.length
                /\ entryIdx' = entryIdx + 1
                /\ UNCHANGED <<epc, eftResult, eftError>>
           ELSE /\ EftThrow(r.err)
                /\ UNCHANGED <<eftOffset, type4Records, type4Offsets, entryIdx>>
    /\ UNCHANGED <<eftBuf, type1, recordList, type2>>

\* The loop body with an entry of an unsupported type passed over.
EftEntry_SkipUnsupported ==
    /\ UNCHANGED <<wvars, hvars, fvars>>
    /\ epc = "records"
    /\ entryIdx <= Len(recordList)
    /\ LET entry == recordList[entryIdx]
           r     == parseType4(eftBuf, eftOffset, entry.idc)
       IN  IF entry.type # 4
           THEN /\ entryIdx' = entryIdx + 1
                /\ UNCHANGED <<eftOffset, epc, type4Records, type4Offsets, eftResult, eftError>>
           ELSE IF r.ok
           THEN /\ type4Records' = Append(type4Records, r.rec)
                /\ type4Offsets' = Append(type4Offsets, eftOffset)
                /\ eftOffset' = eftOffset + r.rec.length
                /\ entryIdx' = entryIdx + 1
                /\ UNCHANGED <<epc, eftResult, eftError>>
           ELSE /\ EftThrow(r.err)
                /\ UNCHANGED <<eftOffset, type4Records, type4Offsets, entryIdx>>
    /\ UNCHANGED <<eftBuf, type1, recordList, type2>>

\* One iteration of `for (const entry of recordList)`.
EftEntry ==
    /\ UNCHANGED <<wvars, hvars, fvars>>
    /\ epc = "records"
    /\ entryIdx <= Len(recordList)
    /\ LET entry == recordList[entryIdx]
           r     == parseType4(eftBuf, eftOffset, entry.idc)
       IN  IF entry.type = 2
           THEN /\ entryIdx' = entryIdx + 1
                /\ UNCHANGED <<eftOffset, epc, type4Records, type4Offsets, eftResult, eftError>>
           ELSE IF entry.type # 4
           THEN /\ EftThrow(EftParseError("Unsupported record type", None, Some(entry.type)))
                /\ UNCHANGED <<eftOffset, type4Records, type4Offsets, entryIdx>>
           ELSE IF r.ok
           THEN /\ type4Records' = Append(type4Records, r.rec)
                /\ type4Offsets' = Append(type4Offsets, eftOffset)
                /\ eftOffset' = eftOffset + r.rec.length
                /\ entryIdx' = entryIdx + 1
                /\ UNCHANGED <<epc, eftResult, eftError>>
           ELSE /\ EftThrow(r.err)
                /\ UNCHANGED <<eftOffset, type4Records, type4Offsets, entryIdx>>
    /\ UNCHANGED <<eftBuf, type1, recordList, type2>>

\* return { type1, type2, type4Records, fileSize }
EftReturn ==
    /\ UNCHANGED <<wvars, hvars, fvars>>
    /\ epc = "records"
    /\ entryIdx > Len(recordList)
    /\ epc' = "done"
    /\ eftResult' = Some([type1        |-> type1.fields,
                          type2        |-> parseType2Demographics(type2.fields),
                          type4Records |-> type4Records,
                          fileSize     |-> Len(eftBuf)])
    /\ UNCHANGED <<eftBuf, eftOffset, type1, recordList, type2, type4Records, entryIdx,
                   type4Offsets, eftError>>

EftNext == EftType1 \/ EftCnt \/ EftType2 \/ EftEntry \/ EftReturn

SpecEft == EftInit /\ [][EftNext]_vars

\* ------------------------------------------------------------------------
\* Properties of parseEft
\* ------------------------------------------------------------------------

\* The CNT entries (after subfield 0) of type 4, in order.
Type4Entries == SelectSeq(recordList, LAMBDA e : e.type = 4)

RECURSIVE SumLengths(_)
SumLengths(recs) == IF recs = <<>> THEN 0 ELSE Head(recs).length + SumLengths(Tail(recs))

EftDone == epc = "done"

\* C2: parseEft either returns a complete EftFile or fails with an
\* EftParseError, never with another kind of error, and a failed call returns
\* nothing of what it had parsed.
C2_ParseContract ==
    /\ epc = "done" =>
          /\ eftResult # None
          /\ DOMAIN eftResult[1] = {"type1", "type2", "type4Records", "fileSize"}
          /\ eftError.kind = "none"
    /\ epc = "error" => eftError.kind = "EftParseError" /\ eftResult = None
    /\ epc \notin {"done", "error"} => eftResult = None

\* C4: on success every returned Type-4 record, read at offset o, has
\* length >= 18, o + length <= fileSize, and the idc of its CNT entry.
C4_Type4Bounds ==
    EftDone =>
        /\ Len(type4Offsets) = Len(eftResult[1].type4Records)
        /\ Len(Type4Entries) = Len(eftResult[1].type4Records)
        /\ \A i \in 1 .. Len(eftResult[1].type4Records) :
              LET rec == eftResult[1].type4Records[i]
              IN  /\ rec.length >= 18
                  /\ type4Offsets[i] + rec.length <= eftResult[1].fileSize
                  /\ rec.idc = Type4Entries[i].idc

C4_Witness ==
    /\ EftDone
    /\ Len(eftResult[1].type4Records) >= 2
    /\ eftResult[1].type4Records[2].idc # eftResult[1].type4Records[1].idc

\* C5 as claimed: on success the lengths consumed for Type-1, Type-2 and the
\* Type-4 records add up to fileSize, the final cursor being at the end of
\* the input.
C5_CursorAtEnd ==
    EftDone =>
        /\ eftOffset = type1.length + type2.length + SumLengths(eftResult[1].type4Records)
        /\ eftOffset = eftResult[1].fileSize

\* C5 as amended: on success the final cursor is the sum of the lengths
\* consumed; the Type-4 records are contiguous from where Type-2 ended; and
\* when a Type-4 record is returned the final cursor is at most fileSize
\* (bytes after the last record are left unread).
C5_CursorWithinFile ==
    EftDone =>
        /\ eftOffset = type1.length + type2.length + SumLengths(eftResult[1].type4Records)
        /\ \A i \in 1 .. Len(type4Offsets) :
              type4Offsets[i] = type1.length + type2.length
                                  + SumLengths(SubSeq(eftResult[1].type4Records, 1, i - 1))
        /\ Len(eftResult[1].type4Records) > 0 => eftOffset <= eftResult[1].fileSize

C5_Witness ==
    /\ EftDone
    /\ Len(eftResult[1].type4Records) >= 1
    /\ \E e \in 1 .. Len(recordList) : recordList[e].type = 2
    /\ eftOffset < eftResult[1].fileSize

DeclaredLength(buf, o) ==
    IF o >= 0 /\ o + 4 <= Len(buf) THEN Some(ReadUInt32BE(buf, o)) ELSE None

\* The loop is at a CNT entry of type 4 and takes its step.
Type4Read ==
    /\ epc = "records"
    /\ entryIdx <= Len(recordList)
    /\ recordList[entryIdx].type = 4
    /\ entryIdx' # entryIdx \/ epc' # epc

\* The step ends the call with this message, offset o and recordType 4.
Type4Fails(msg) ==
    /\ epc' = "error"
    /\ eftError' = EftParseError(msg, Some(eftOffset), Some(4))
    /\ eftOffset' = eftOffset

Type4Step ==
    Type4Read =>
        IF eftOffset + 18 > Len(eftBuf) THEN Type4Fails("exceeds buffer")
        ELSE LET L == DeclaredLength(eftBuf, eftOffset)
             IN  /\ L # None
                 /\ IF L[1] < 18 THEN Type4Fails("smaller than header")
                    ELSE IF eftOffset + L[1] > Len(eftBuf) THEN Type4Fails("exceeds buffer")
                    ELSE IF eftBuf[eftOffset + 5] # recordList[entryIdx].idc
                    THEN Type4Fails("IDC mismatch")
                    ELSE /\ epc' = "records"
                         /\ eftOffset' = eftOffset + L[1]
                         /\ entryIdx' = entryIdx + 1

\* C11: a Type-4 read at offset o reports the first failing check of: o + 18
\* beyond the file ('exceeds buffer'), declared length L below 18 ('smaller
\* than header'), o + L beyond the file ('exceeds buffer'), IDC byte unlike
\* the CNT idc ('IDC mismatch'), each with offset o and recordType 4; with
\* every check passed the cursor advances by exactly L.
C11_CheckOrder == [][Type4Step]_vars

\* The CNT entries (after subfield 0) whose type is neither 2 nor 4.
Unsupported == {e \in 1 .. Len(recordList) : recordList[e].type \notin {2, 4}}

\* The loop is at an entry of an unsupported type.
UnsupportedAhead ==
    /\ epc = "records"
    /\ entryIdx <= Len(recordList)
    /\ entryIdx \in Unsupported

UnsupportedStep ==
    UnsupportedAhead =>
        /\ epc' = "error"
        /\ eftError' = EftParseError("Unsupported record type", None,
                                     Some(recordList[entryIdx].type))
        /\ eftResult' = None
        /\ entryIdx' = entryIdx
        /\ type4Records' = type4Records

UnsupportedFirst ==
    /\ EftDone => Unsupported = {}
    /\ epc = "records" => \A e \in Unsupported : e >= entryIdx
    /\ epc = "error" /\ eftError.msg = "Unsupported record type" =>
          /\ entryIdx \in Unsupported
          /\ \A e \in Unsupported : e >= entryIdx
          /\ eftError.kind = "EftParseError"
          /\ eftError.recordType = Some(recordList[entryIdx].type)
          /\ eftResult = None

\* C12: when the loop over the CNT entries reaches an entry of a type N other
\* than 2 and 4, parseEft fails with 'Unsupported record type' and
\* recordType N, for the first such entry in CNT order; the entry is never
\* skipped and no result is returned.
C12_UnsupportedType == []UnsupportedFirst /\ [][UnsupportedStep]_vars

\* An unsupported entry met after a Type-4 record had been read.
C12_Witness ==
    /\ epc = "error"
    /\ eftError.msg = "Unsupported record type"
    /\ eftError.recordType = Some(3)
    /\ Len(type4Records) >= 1
    /\ entryIdx < Len(recordList)

\* The value of tag 1.03 of the Type-1 record that was read.
CntField == Get(type1.fields, <<49, 46, 48, 51>>)

\* The Type-1 record was read and parseCnt has been called.
CntExamined == type1 # NoAscii /\ epc # "cnt"

\* A string that is a decimal integer: digits, after an optional sign.
IsInteger(str) ==
    LET body == IF str # <<>> /\ Head(str) \in {43, 45} THEN Tail(str) ELSE str
    IN  body # <<>> /\ \A i \in 1 .. Len(body) : IsDigit(body[i])

\* A CNT subfield one of whose two items is missing or is not an integer.
BadSubfield(subfield) ==
    LET parts == Split(subfield, US)
    IN  Len(parts) < 2 \/ ~IsInteger(parts[1]) \/ ~IsInteger(parts[2])

\* The subfields after subfield 0 of a CNT value.
LaterSubfields(cntValue) == Tail(Split(cntValue, RS))

EftFailsWith(msg) ==
    epc = "error" /\ eftError.kind = "EftParseError" /\ eftError.msg = msg

\* C13: a CNT value with a subfield after subfield 0 one of whose two items is
\* missing or not an integer ('abc', '4x', an empty item) makes parseEft fail
\* with 'Malformed CNT'; a missing or empty 1.03 fails with 'Missing CNT'
\* before the Type-2 record is read; subfield 0 is never validated.
C13_CntValidation ==
    CntExamined =>
        IF CntField = None \/ CntField = Some(<<>>)
        THEN EftFailsWith("Missing CNT") /\ type2 = NoAscii
        ELSE IF \E i \in 1 .. Len(LaterSubfields(CntField[1])) :
                    BadSubfield(LaterSubfields(CntField[1])[i])
        THEN EftFailsWith("Malformed CNT") /\ type2 = NoAscii
        ELSE ~EftFailsWith("Malformed CNT") /\ ~EftFailsWith("Missing CNT")

\* An FS byte occurs in buf at or after byte offset from.
HasFS(buf, from) == \E i \in Max(from, 0) + 1 .. Len(buf) : buf[i] = FS

\* The Type-1 record and the CNT were read and the Type-2 read has been made.
Type2Examined ==
    /\ epc \in {"records", "done", "error"}
    /\ type1 # NoAscii
    /\ ~EftFailsWith("Missing CNT")
    /\ ~EftFailsWith("Malformed CNT")

\* C14: an input without any FS byte, the empty input included, fails with
\* 'No FS terminator', offset 0 and recordType 1; with the Type-1 record and
\* the CNT read and no FS byte at or after the Type-2 start offset, the call
\* fails with the same message, recordType 2 and that start offset.
C14_NoTerminator ==
    /\ ~HasFS(eftBuf, 0) /\ epc # "type1" =>
          /\ epc = "error"
          /\ eftError = EftParseError("No FS terminator", Some(0), Some(1))
          /\ eftResult = None
    /\ Type2Examined /\ ~HasFS(eftBuf, type1.length) =>
          /\ epc = "error"
          /\ eftError = EftParseError("No FS terminator", Some(type1.length), Some(2))
          /\ eftResult = None

\* A Type-2 record without terminator after a Type-1 record that was read.
C14_Witness ==
    /\ epc = "error"
    /\ eftError = EftParseError("No FS terminator", Some(type1.length), Some(2))
    /\ type1.length > 0
    /\ type1.length < Len(eftBuf)
    /\ HasFS(eftBuf, 0)

\* The step that reads the ASCII record of type T with success.
AsciiRead(T) ==
    IF T = 1 THEN epc = "type1" /\ epc' = "cnt" ELSE epc = "type2" /\ epc' = "records"

\* The field map the step leaves for the record of type T.
FieldsRead(T) == IF T = 1 THEN type1'.fields ELSE type2'.fields

\* The field map of the bytes from offset o up to the FS that
\* buf.indexOf(FS, o) finds.
FieldsOfSpan(T, o) ==
    AsciiFields(Split(ToAscii(Subarray(eftBuf, o, BufIndexOf(eftBuf, FS, o))), GS),
                LenFieldTag(T), EmptyObj, Num(0)).fields

\* The observed span of the record at o, its FS included.
Span(o) == BufIndexOf(eftBuf, FS, o) - o + 1

\* The number the T.01 value of the field map denotes (NaN without the tag).
Declared(T) == ParseInt(Get(FieldsRead(T), LenFieldTag(T)))

DeclaredStep(T) ==
    AsciiRead(T) =>
        /\ FieldsRead(T) = FieldsOfSpan(T, eftOffset)
        /\ IF LenFieldTag(T) \in DOMAIN FieldsRead(T)
           THEN ~Declared(T).nan /\ eftOffset' - eftOffset = Declared(T).v
           ELSE eftOffset' - eftOffset = Span(eftOffset)

DeclaredOrSpanStep(T) ==
    AsciiRead(T) =>
        /\ FieldsRead(T) = FieldsOfSpan(T, eftOffset)
        /\ IF ~Declared(T).nan /\ Declared(T).v # 0
           THEN eftOffset' - eftOffset = Declared(T).v
           ELSE eftOffset' - eftOffset = Span(eftOffset)

\* C15 as claimed: after an ASCII record at o with its first FS at fs_pos the
\* cursor advances by the length declared in T.01 whenever the tag is
\* present, and by fs_pos - o + 1 only when it is absent; the field map is
\* built from the bytes [o, fs_pos).
C15_DeclaredLength == [][DeclaredStep(1) /\ DeclaredStep(2)]_vars

\* C15 as amended: the cursor advances by the T.01 value when parseInt gives
\* a number other than 0 for it (a negative one included), and by
\* fs_pos - o + 1 when the tag is absent, not numeric or 0; the field map is
\* built from the bytes [o, fs_pos) in every case.
C15_DeclaredOrSpan == [][DeclaredOrSpanStep(1) /\ DeclaredOrSpanStep(2)]_vars

\* A Type-2 record read whose declared length is not its observed span.
C15_Witness ==
    /\ epc = "records"
    /\ type1.length > 0
    /\ LenFieldTag(2) \in DOMAIN type2.fields
    /\ type2.length # BufIndexOf(eftBuf, FS, type1.length) - type1.length + 1
    /\ eftOffset = type1.length + type2.length

\* The maximal runs of non-whitespace characters of str, in order.
RECURSIVE Words(_)
Words(str) ==
    LET rest == SkipSpaces(str)
        word == WordPrefix(rest)
    IN  IF rest = <<>> THEN <<>>
        ELSE <<word>> \o Words(SubSeq(rest, Len(word) + 1, Len(rest)))

\* The name a 2.018 value gives when it is split on its first ',' only.
NameByFirstComma(value) ==
    LET comma  == StrIndexOf(value, 44)
        left   == IF comma = -1 THEN value ELSE Substring(value, 0, comma)
        right  == IF comma = -1 THEN <<>> ELSE Substring(value, comma + 1, Len(value))
        tokens == Words(right)
    IN  [first  |-> IF tokens = <<>> THEN <<>> ELSE titleCase(tokens[1]),
         middle |-> IF tokens = <<>> THEN <<>> ELSE titleCase(Join(Tail(tokens), <<32>>)),
         last   |-> titleCase(Trim(left))]

\* The non-empty strings among first, middle, last, joined by single spaces.
JoinedName(name) ==
    LET parts == SelectSeq(<<name.first, name.middle, name.last>>, LAMBDA x : Len(x) > 0)
    IN  Join(parts, <<32>>)

\* C18: for a non-empty 2.018 the name is split on the first ',' only: the
\* left side is the last name; the right side, further commas included, is
\* split on runs of whitespace into the first name and the middle name (the
\* remaining tokens joined by single spaces); without a comma the whole value
\* is the last name; fullName is the non-empty parts of first, middle, last
\* joined by single spaces (every component title-cased).
C18_NameSplit ==
    EftDone /\ HasValue(eftResult[1].type2.raw, <<50, 46, 48, 49, 56>>) =>
        LET type2R == eftResult[1].type2
            value  == type2R.raw[<<50, 46, 48, 49, 56>>]
        IN  /\ type2R.name = Some(NameByFirstComma(value))
            /\ type2R.fullName = Some(JoinedName(NameByFirstComma(value)))

\* ------------------------------------------------------------------------
\* WSQ decoder: constants (src/src/wsq-decoder.js, lines 17-39)
\* ------------------------------------------------------------------------

BITMASK == <<0, 1, 3, 7, 15, 31, 63, 127, 255>>

MAX_DHT_TABLES == 8

MAX_HUFFBITS == 16

MAX_HUFFCOUNTS_WSQ == 256

W_TREELEN == 20

Q_TREELEN == 64

SOI_WSQ == 65440

EOI_WSQ == 65441

SOF_WSQ == 65442

SOB_WSQ == 65443

DTT_WSQ == 65444

DQT_WSQ == 65445

DHT_WSQ == 65446

COM_WSQ == 65448

MAX_SUBBANDS == 64

NUM_SUBBANDS == 60

TBLS_N_SOF == 2

TBLS_N_SOB == TBLS_N_SOF + 2

\* ------------------------------------------------------------------------
\* Floating-point values, kept as exact fractions n/d (d > 0, lowest terms)
\* or NaN.  The generated streams carry only values whose arithmetic is exact
\* in binary floating point, so no rounding is lost.
\* ------------------------------------------------------------------------

Abs(a) == IF a < 0 THEN 0 - a ELSE a

RECURSIVE GCD(_, _)
GCD(a, b) == IF b = 0 THEN a ELSE GCD(b, a % b)

FNaN == [nan |-> TRUE, n |-> 0, d |-> 1]

Frac(n, d) ==
    LET g == GCD(Abs(n), d)
    IN  IF g <= 1 THEN [nan |-> FALSE, n |-> n, d |-> d]
        ELSE [nan |-> FALSE, n |-> n \div g, d |-> d \div g]

FInt(n) == [nan |-> FALSE, n |-> n, d |-> 1]

FZero == FInt(0)

FAdd(a, b) ==
    IF a.nan \/ b.nan THEN FNaN
    ELSE IF a.d = b.d THEN Frac(a.n + b.n, a.d)
    ELSE Frac(a.n * b.d + b.n * a.d, a.d * b.d)

FMul(a, b) == IF a.nan \/ b.nan THEN FNaN ELSE Frac(a.n * b.n, a.d * b.d)

FNeg(a) == IF a.nan THEN FNaN ELSE [a EXCEPT !.n = 0 - a.n]

FSub(a, b) == FAdd(a, FNeg(b))

\* a < b and a > b, false when either is NaN.
FLess(a, b) == ~a.nan /\ ~b.nan /\ a.n * b.d < b.n * a.d

FIsZero(a) == ~a.nan /\ a.n = 0

\* x | 0 for 0 <= x < 2^31; NaN | 0 is 0.
FToInt32(a) == IF a.nan THEN 0 ELSE a.n \div a.d

\* while (scale > 0) { x /= 10.0; scale--; }
RECURSIVE ScaleDown(_, _)
ScaleDown(x, scale) ==
    IF scale > 0 THEN ScaleDown(FMul(x, Frac(1, 10)), scale - 1) ELSE x

\* arr[idx] of a Float32Array as an operand: NaN (from undefined) outside it.
FRead(arr, idx) == IF idx >= 0 /\ idx < Len(arr) THEN arr[idx + 1] ELSE FNaN

\* arr[idx] = v on a typed array: a store outside the array is dropped.
TWrite(arr, idx, v) ==
    IF idx >= 0 /\ idx < Len(arr) THEN [arr EXCEPT ![idx + 1] = v] ELSE arr

\* new Float32Array(n), new Int32Array(n)
FZeros(n) == [i \in 1 .. n |-> FZero]

IZeros(n) == [i \in 1 .. n |-> 0]

\* ------------------------------------------------------------------------
\* Token: the reader and its tables (lines 44-104)
\* ------------------------------------------------------------------------

WsqDecodeError(msg, offset) == [kind |-> "WsqDecodeError", msg |-> msg, offset |-> offset]

\* The TypeError JavaScript raises for a member access on undefined.
TypeError(offset) == [kind |-> "TypeError", msg |-> "member of undefined", offset |-> offset]

NoWsqError == [kind |-> "none", msg |-> "", offset |-> 0]

\* constructor(buffer)
TokenNew(buffer) ==
    [buffer |-> buffer, pointer |-> 0, tableDTT |-> None, tableDQT |-> None,
     tableDHT |-> None, wtree |-> None, qtree |-> None]

\* initialize(): fresh tables; tableDHT[i] of the source is element i + 1.
initialize(token) ==
    [token EXCEPT
       !.tableDTT = [lofilt |-> <<>>, hifilt |-> <<>>, losz |-> 0, hisz |-> 0,
                     lodef |-> 0, hidef |-> 0],
       !.tableDQT = [binCenter |-> FZero, qBin |-> FZeros(MAX_SUBBANDS),
                     zBin |-> FZeros(MAX_SUBBANDS), dqtDef |-> 0],
       !.tableDHT = [i \in 1 .. MAX_DHT_TABLES |->
                       [tabdef |-> 0, huffbits |-> IZeros(MAX_HUFFBITS),
                        huffvalues |-> IZeros(MAX_HUFFCOUNTS_WSQ + 1)]]]

\* The result of a step that may throw: the value, the token after it, and
\* the error when it threw.
Ok(v, token) == [ok |-> TRUE, v |-> v, token |-> token, err |-> NoWsqError]

Throw(err, token) == [ok |-> FALSE, v |-> 0, token |-> token, err |-> err]

EndOfData(token) == Throw(WsqDecodeError("Unexpected end of data", token.pointer), token)

\* The statements after a call that may throw: F of what the call returned,
\* or its throw, which ends every caller up to decodeWsq.
Bind(r, F(_)) == IF r.ok THEN F(r) ELSE r

\* const v = ...; F(v)
With(v, F(_)) == F(v)

Byte(token, i) == token.buffer[token.pointer + i + 1]

readInt(token) ==
    IF token.pointer + 4 > Len(token.buffer) THEN EndOfData(token)
    ELSE Ok(((Byte(token, 0) * 256 + Byte(token, 1)) * 256 + Byte(token, 2)) * 256
               + Byte(token, 3),
            [token EXCEPT !.pointer = @ + 4])

readShort(token) ==
    IF token.pointer + 2 > Len(token.buffer) THEN EndOfData(token)
    ELSE Ok(Byte(token, 0) * 256 + Byte(token, 1), [token EXCEPT !.pointer = @ + 2])

readByte(token) ==
    IF token.pointer >= Len(token.buffer) THEN EndOfData(token)
    ELSE Ok(Byte(token, 0), [token EXCEPT !.pointer = @ + 1])

\* readBytes(size): size may be negative (a COM of declared length 0 or 1).
readBytes(token, size) ==
    IF token.pointer + size > Len(token.buffer) THEN EndOfData(token)
    ELSE Ok(Subarray(token.buffer, token.pointer, token.pointer + size),
            [token EXCEPT !.pointer = @ + size])

\* The sum of sizes[lo..hi].
RECURSIVE SumRange(_, _, _)
SumRange(sizes, lo, hi) ==
    IF lo > hi THEN 0
    ELSE IF lo = hi THEN sizes[lo]
    ELSE SumRange(sizes, lo, (lo + hi) \div 2) + SumRange(sizes, (lo + hi) \div 2 + 1, hi)

\* The running sums base, base + sizes[lo], ... before each of sizes[lo..hi].
RECURSIVE Offsets(_, _, _, _)
Offsets(sizes, lo, hi, base) ==
    IF lo > hi THEN <<>>
    ELSE IF lo = hi THEN <<base>>
    ELSE Offsets(sizes, lo, (lo + hi) \div 2, base)
         \o Offsets(sizes, (lo + hi) \div 2 + 1, hi,
                    base + SumRange(sizes, lo, (lo + hi) \div 2))

\* One read of the given size (1 byte, 2 short, 4 int) with the pointer at at.
ReadAt(token, size, at) ==
    CASE size = 1 -> readByte([token EXCEPT !.pointer = at])
      [] size = 2 -> readShort([token EXCEPT !.pointer = at])
      [] OTHER    -> readInt([token EXCEPT !.pointer = at])

\* The reads of ReadRun with the pointer of each read given.
ReadRunAt(token, sizes, at) ==
    LET n     == Len(sizes)
        bad   == {i \in 1 .. n : at[i] + sizes[i] > Len(token.buffer)}
        first == CHOOSE i \in bad : \A j \in bad : i <= j
    IN  IF bad = {}
        THEN Ok([i \in 1 .. n |-> ReadAt(token, sizes[i], at[i]).v],
                [token EXCEPT !.pointer = @ + SumRange(sizes, 1, n)])
        ELSE ReadAt(token, sizes[first], at[first])

\* A straight run of reads of the given sizes: the values read, or the
\* end-of-data error of the first read that does not fit.
ReadRun(token, sizes) ==
    ReadRunAt(token, sizes, Offsets(sizes, 1, Len(sizes), token.pointer))

\* ------------------------------------------------------------------------
\* Markers and table dispatch (lines 152-191)
\* ------------------------------------------------------------------------

\* getCMarkerWSQ with EOI_WSQ taken out of the markers of TBLS_N_SOF.
getCMarkerWSQ_EoiRejected(token, type) ==
    Bind(readShort(token), LAMBDA r :
      IF type = SOI_WSQ /\ r.v # SOI_WSQ
      THEN Throw(WsqDecodeError("No SOI marker", r.token.pointer), r.token)
      ELSE IF type = TBLS_N_SOF
              /\ r.v \notin {DTT_WSQ, DQT_WSQ, DHT_WSQ, SOF_WSQ, COM_WSQ}
      THEN Throw(WsqDecodeError("No SOF, Table, or comment marker", r.token.pointer),
                 r.token)
      ELSE IF type = TBLS_N_SOB
              /\ r.v \notin {DTT_WSQ, DQT_WSQ, DHT_WSQ, SOB_WSQ, COM_WSQ, EOI_WSQ}
      THEN Throw(WsqDecodeError("No SOB, Table, or comment marker", r.token.pointer),
                 r.token)
      ELSE r)

getCMarkerWSQ(token, type) ==
    Bind(readShort(token), LAMBDA r :
      IF type = SOI_WSQ /\ r.v # SOI_WSQ
      THEN Throw(WsqDecodeError("No SOI marker", r.token.pointer), r.token)
      ELSE IF type = TBLS_N_SOF
              /\ r.v \notin {DTT_WSQ, DQT_WSQ, DHT_WSQ, SOF_WSQ, COM_WSQ, EOI_WSQ}
      THEN Throw(WsqDecodeError("No SOF, Table, or comment marker", r.token.pointer),
                 r.token)
      ELSE IF type = TBLS_N_SOB
              /\ r.v \notin {DTT_WSQ, DQT_WSQ, DHT_WSQ, SOB_WSQ, COM_WSQ, EOI_WSQ}
      THEN Throw(WsqDecodeError("No SOB, Table, or comment marker", r.token.pointer),
                 r.token)
      ELSE r)

\* ------------------------------------------------------------------------
\* Table handlers (lines 195-409)
\* ------------------------------------------------------------------------

intSign(power) == IF power % 2 = 0 THEN 1 ELSE -1

\* One compact coefficient read as sign:u8, scale:u8, magnitude:u32: the
\* magnitude / 10^scale, negated when sign is not 0.
CoefValue(v) ==
    IF v[1] # 0 THEN FNeg(ScaleDown(FInt(v[3]), v[2])) ELSE ScaleDown(FInt(v[3]), v[2])

\* The compact coefficients of one filter: count reads of sign, scale and
\* magnitude.
RECURSIVE ReadCoefs(_, _, _)
ReadCoefs(token, count, coefs) ==
    IF count <= 0 THEN Ok(coefs, token)
    ELSE Bind(ReadRun(token, <<1, 1, 4>>), LAMBDA r :
           ReadCoefs(r.token, count - 1, Append(coefs, CoefValue(r.v))))

\* The number of compact coefficients of a filter of the given size less one.
CompactTop(sz) == (IF sz % 2 # 0 THEN (sz + 1) \div 2 ELSE sz \div 2) - 1

\* The mirroring of the compact coefficients a[cnt..aSize] into hifilt.
RECURSIVE MirrorHi(_, _, _, _, _)
MirrorHi(hifilt, hisz, aSize, a, cnt) ==
    IF cnt > aSize THEN hifilt
    ELSE IF hisz % 2 # 0
    THEN With(TWrite(hifilt, cnt + aSize, FMul(FInt(intSign(cnt)), a[cnt + 1])),
           LAMBDA f : MirrorHi(IF cnt > 0
                               THEN TWrite(f, aSize - cnt, FRead(f, cnt + aSize))
                               ELSE f,
                               hisz, aSize, a, cnt + 1))
    ELSE With(TWrite(hifilt, cnt + aSize + 1, FMul(FInt(intSign(cnt)), a[cnt + 1])),
           LAMBDA f : MirrorHi(TWrite(f, aSize - cnt, FNeg(FRead(f, cnt + aSize + 1))),
                               hisz, aSize, a, cnt + 1))

\* The mirroring of the compact coefficients a[cnt..aSize] into lofilt.
RECURSIVE MirrorLo(_, _, _, _, _)
MirrorLo(lofilt, losz, aSize, a, cnt) ==
    IF cnt > aSize THEN lofilt
    ELSE IF losz % 2 # 0
    THEN With(TWrite(lofilt, cnt + aSize, FMul(FInt(intSign(cnt)), a[cnt + 1])),
           LAMBDA f : MirrorLo(IF cnt > 0
                               THEN TWrite(f, aSize - cnt, FRead(f, cnt + aSize))
                               ELSE f,
                               losz, aSize, a, cnt + 1))
    ELSE With(TWrite(lofilt, cnt + aSize + 1, FMul(FInt(intSign(cnt + 1)), a[cnt + 1])),
           LAMBDA f : MirrorLo(TWrite(f, aSize - cnt, FRead(f, cnt + aSize + 1)),
                               losz, aSize, a, cnt + 1))

getCTransformTable(token) ==
    Bind(ReadRun(token, <<2, 1, 1>>), LAMBDA r0 :
      Bind(ReadCoefs(r0.token, CompactTop(r0.v[2]) + 1, <<>>), LAMBDA rh :
        Bind(ReadCoefs(rh.token, CompactTop(r0.v[3]) + 1, <<>>), LAMBDA rl :
          Ok(0, [rl.token EXCEPT !.tableDTT =
                   [hisz   |-> r0.v[2],
                    losz   |-> r0.v[3],
                    hifilt |-> MirrorHi(FZeros(r0.v[2]), r0.v[2], CompactTop(r0.v[2]),
                                        rh.v, 0),
                    lofilt |-> MirrorLo(FZeros(r0.v[3]), r0.v[3], CompactTop(r0.v[3]),
                                        rl.v, 0),
                    lodef  |-> 1,
                    hidef  |-> 1]]))))

\* The reads of DQT: header size, then scale:u8 raw:u16 for binCenter and for
\* qBin[cnt], zBin[cnt] of each of the 64 subbands.
DqtLayout == <<2>> \o [i \in 1 .. 2 + 4 * MAX_SUBBANDS |-> IF i % 2 = 1 THEN 1 ELSE 2]

getCQuantizationTable(token) ==
    Bind(ReadRun(token, DqtLayout), LAMBDA r :
      Ok(0, [r.token EXCEPT !.tableDQT =
               [binCenter |-> ScaleDown(FInt(r.v[3]), r.v[2]),
                qBin |-> [cnt \in 1 .. MAX_SUBBANDS |->
                            ScaleDown(FInt(r.v[4 * cnt + 1]), r.v[4 * cnt])],
                zBin |-> [cnt \in 1 .. MAX_SUBBANDS |->
                            ScaleDown(FInt(r.v[4 * cnt + 3]), r.v[4 * cnt + 2])],
                dqtDef |-> 1]]))

RECURSIVE SumSeq(_)
SumSeq(q) == IF q = <<>> THEN 0 ELSE Head(q) + SumSeq(Tail(q))

\* huffvalues[i] = token.readByte() for i < numCodes, into an Int32Array of
\* maxHuffcounts + 1 entries; the read that finds no byte left throws.
ReadHuffvalues(token, numCodes, maxHuffcounts) ==
    IF numCodes > 0 /\ token.pointer + numCodes > Len(token.buffer)
    THEN EndOfData([token EXCEPT !.pointer = Max(@, Len(token.buffer))])
    ELSE Ok([i \in 1 .. maxHuffcounts + 1 |->
               IF i <= numCodes THEN token.buffer[token.pointer + i] ELSE 0],
            [token EXCEPT !.pointer = @ + numCodes])

\* getCHuffmanTable: one sub-table {tableId, huffbits, huffvalues, bytesLeft}.
getCHuffmanTable(token, maxHuffcounts, bytesLeftIn, readTableLen) ==
    Bind(IF readTableLen THEN readShort(token) ELSE Ok(0, token), LAMBDA r0 :
      Bind(ReadRun(r0.token, [i \in 1 .. 1 + MAX_HUFFBITS |-> 1]), LAMBDA r1 :
        Bind(ReadHuffvalues(r1.token, SumSeq(Tail(r1.v)), maxHuffcounts), LAMBDA r2 :
          Ok([tableId    |-> Head(r1.v),
              huffbits   |-> Tail(r1.v),
              huffvalues |-> r2.v,
              bytesLeft  |-> (IF readTableLen THEN r0.v - 2 ELSE bytesLeftIn)
                             - 1 - MAX_HUFFBITS - SumSeq(Tail(r1.v))],
             r2.token))))

\* StoreHuffmanTable that keeps a table already defined.
StoreHuffmanTable_KeepFirst(token, t) ==
    IF t.tableId >= MAX_DHT_TABLES THEN Throw(TypeError(token.pointer), token)
    ELSE IF token.tableDHT[t.tableId + 1].tabdef = 1 THEN Ok(0, token)
    ELSE Ok(0, [token EXCEPT !.tableDHT[t.tableId + 1] =
                  [tabdef |-> 1, huffbits |-> t.huffbits, huffvalues |-> t.huffvalues]])

\* token.tableDHT[tableId] = {huffbits, huffvalues, tabdef: 1}; tableDHT has
\* entries 0..7 only, and a member store on undefined is a TypeError.
StoreHuffmanTable(token, t) ==
    IF t.tableId >= MAX_DHT_TABLES THEN Throw(TypeError(token.pointer), token)
    ELSE Ok(0, [token EXCEPT !.tableDHT[t.tableId + 1] =
                  [tabdef |-> 1, huffbits |-> t.huffbits, huffvalues |-> t.huffvalues]])

\* The sub-tables of getCHuffmanTableWSQ: the first one reads the block
\* length, the others run while (bytesLeft !== 0).
RECURSIVE HuffmanSubTables(_, _, _)
HuffmanSubTables(token, bytesLeft, first) ==
    IF ~first /\ bytesLeft = 0 THEN Ok(0, token)
    ELSE Bind(getCHuffmanTable(token, MAX_HUFFCOUNTS_WSQ, bytesLeft, first), LAMBDA r :
           Bind(StoreHuffmanTable(r.token, r.v), LAMBDA w :
             HuffmanSubTables(w.token, r.v.bytesLeft, FALSE)))

getCHuffmanTableWSQ(token) == HuffmanSubTables(token, 0, TRUE)

\* getCComment that leaves the reader at the marker of the comment.
getCComment_Rewind(token) ==
    Bind(readShort(token), LAMBDA r : Ok(0, [token EXCEPT !.pointer = @ - 2]))

getCComment(token) == Bind(readShort(token), LAMBDA r : readBytes(r.token, r.v - 2))

getCTableWSQ(token, marker) ==
    CASE marker = DTT_WSQ -> getCTransformTable(token)
      [] marker = DQT_WSQ -> getCQuantizationTable(token)
      [] marker = DHT_WSQ -> getCHuffmanTableWSQ(token)
      [] marker = COM_WSQ -> getCComment(token)
      [] OTHER            -> Throw(WsqDecodeError("Invalid table marker", token.pointer),
                                   token)

getCFrameHeaderWSQ(token) ==
    Bind(ReadRun(token, <<2, 1, 1, 2, 2, 1, 2, 1, 2, 1, 2>>), LAMBDA r :
      Ok([black      |-> r.v[2],
          white      |-> r.v[3],
          height     |-> r.v[4],
          width      |-> r.v[5],
          mShift     |-> ScaleDown(FInt(r.v[7]), r.v[6]),
          rScale     |-> ScaleDown(FInt(r.v[9]), r.v[8]),
          wsqEncoder |-> r.v[10],
          software   |-> r.v[11]],
         r.token))

\* ------------------------------------------------------------------------
\* Tree building (lines 414-729).  wtree[i] and qtree[i] of the source are
\* elements i + 1 here.
\* ------------------------------------------------------------------------

\* (n / 2) | 0 for even n and ((n + 1) / 2) | 0 for odd n.
HalfUp(n) == IF n % 2 = 0 THEN n \div 2 ELSE (n + 1) \div 2

\* The halves wtree4 gives an extent len: the first and the second, the
\* smaller half first when the node is the one named odd.
FirstHalf(len, smallFirst) ==
    IF len % 2 = 0 THEN len \div 2
    ELSE IF smallFirst THEN (len - 1) \div 2 ELSE (len + 1) \div 2

SecondHalf(len, smallFirst) ==
    IF len % 2 = 0 THEN len \div 2
    ELSE IF smallFirst THEN (len - 1) \div 2 + 1 ELSE (len + 1) \div 2 - 1

wtree4(wtree, start1, start2, lenx, leny, x, y, stop1) ==
    [i \in 1 .. Len(wtree) |->
       CASE i - 1 = start1 ->
              [wtree[i] EXCEPT !.x = x, !.y = y, !.lenx = lenx, !.leny = leny]
         [] i - 1 = start2 ->
              [wtree[i] EXCEPT !.x = x, !.y = y,
                               !.lenx = FirstHalf(lenx, start1 = 4),
                               !.leny = FirstHalf(leny, start1 = 5)]
         [] i - 1 = start2 + 1 ->
              [wtree[i] EXCEPT !.x = FirstHalf(lenx, start1 = 4) + x, !.y = y,
                               !.lenx = SecondHalf(lenx, start1 = 4),
                               !.leny = FirstHalf(leny, start1 = 5)]
         [] i - 1 = start2 + 2 ->
              [wtree[i] EXCEPT !.x = x, !.y = FirstHalf(leny, start1 = 5) + y,
                               !.lenx = FirstHalf(lenx, start1 = 4),
                               !.leny = SecondHalf(leny, start1 = 5)]
         [] i - 1 = start2 + 3 /\ stop1 = 0 ->
              [wtree[i] EXCEPT !.x = FirstHalf(lenx, start1 = 4) + x,
                               !.y = FirstHalf(leny, start1 = 5) + y,
                               !.lenx = SecondHalf(lenx, start1 = 4),
                               !.leny = SecondHalf(leny, start1 = 5)]
         [] OTHER -> wtree[i]]

InvRw == {2, 4, 7, 9, 11, 13, 16, 18}

InvCl == {3, 5, 8, 9, 12, 13, 17, 18}

\* The three wtree4 calls after the first and node 19 (lines 444-477), with
\* lenx, lenx2, leny, leny2 computed from wtree[1].
SplitWTree(w1) ==
    With(wtree4(wtree4(wtree4(w1, 4, 6,
                              IF w1[2].lenx % 2 = 0 THEN HalfUp(w1[2].lenx)
                              ELSE HalfUp(w1[2].lenx) - 1,
                              HalfUp(w1[2].leny), HalfUp(w1[2].lenx), 0, 0),
                       5, 10,
                       HalfUp(w1[2].lenx),
                       IF w1[2].leny % 2 = 0 THEN HalfUp(w1[2].leny)
                       ELSE HalfUp(w1[2].leny) - 1,
                       0, HalfUp(w1[2].leny), 0),
                14, 15, HalfUp(w1[2].lenx), HalfUp(w1[2].leny), 0, 0, 0),
         LAMBDA w4 : [w4 EXCEPT ![20].x = 0, ![20].y = 0,
                                ![20].lenx = HalfUp(w4[16].lenx),
                                ![20].leny = HalfUp(w4[16].leny)])

buildWTree(token, wtreelen, width, height) ==
    [token EXCEPT !.wtree =
       SplitWTree(wtree4([i \in 1 .. wtreelen |->
                            [x |-> 0, y |-> 0, lenx |-> 0, leny |-> 0,
                             invrw |-> IF (i - 1) \in InvRw THEN 1 ELSE 0,
                             invcl |-> IF (i - 1) \in InvCl THEN 1 ELSE 0]],
                         0, 1, width, height, 0, 0, 1))]

QNode(x, y, lenx, leny) == [x |-> x, y |-> y, lenx |-> lenx, leny |-> leny]

\* Quarter with both halves of an extent rounded up.
Quarter_HalvesRoundedUp(x, y, tempx, tempy) ==
    << QNode(x, y, HalfUp(tempx), HalfUp(tempy)),
       QNode(x + HalfUp(tempx), y, HalfUp(tempx), HalfUp(tempy)),
       QNode(x, y + HalfUp(tempy), HalfUp(tempx), HalfUp(tempy)),
       QNode(x + HalfUp(tempx), y + HalfUp(tempy), HalfUp(tempx), HalfUp(tempy)) >>

\* The four nodes qtree[p .. p + 3] that quarter a region of tempx by tempy
\* at (x, y), as both qtree16 (first quadrant) and qtree4 compute them.
Quarter(x, y, tempx, tempy) ==
    LET lenx0 == HalfUp(tempx)
        lenx1 == IF tempx % 2 = 0 THEN lenx0 ELSE lenx0 - 1
        leny0 == HalfUp(tempy)
        leny2 == IF tempy % 2 = 0 THEN leny0 ELSE leny0 - 1
    IN  << QNode(x, y, lenx0, leny0),
           QNode(x + lenx0, y, lenx1, leny0),
           QNode(x, y + leny0, lenx0, leny2),
           QNode(x + lenx0, y + leny0, lenx1, leny2) >>

\* qtree[start + k] = nodes[k + 1]
PutNodes(qtree, start, nodes) ==
    [i \in 1 .. Len(qtree) |->
       IF i - 1 >= start /\ i - 1 < start + Len(nodes) THEN nodes[i - start] ELSE qtree[i]]

qtree16(qtree, start, lenx, leny, x, y, rw, cl) ==
    LET evenx  == lenx % 2
        eveny  == leny % 2
        tempx  == IF evenx = 0 THEN lenx \div 2
                  ELSE IF cl # 0 THEN (lenx + 1) \div 2 - 1 ELSE (lenx + 1) \div 2
        temp2x == IF evenx = 0 THEN tempx
                  ELSE IF cl # 0 THEN (lenx + 1) \div 2 ELSE tempx - 1
        tempy  == IF eveny = 0 THEN leny \div 2
                  ELSE IF rw # 0 THEN (leny + 1) \div 2 - 1 ELSE (leny + 1) \div 2
        temp2y == IF eveny = 0 THEN tempy
                  ELSE IF rw # 0 THEN (leny + 1) \div 2 ELSE tempy - 1
        q1 == Quarter(x, y, tempx, tempy)
        \* second quadrant: the wider half on the right when temp2x is odd
        x4    == x + tempx
        lenx4 == IF temp2x % 2 = 0 THEN temp2x \div 2 ELSE (temp2x + 1) \div 2 - 1
        lenx5 == IF temp2x % 2 = 0 THEN lenx4 ELSE (temp2x + 1) \div 2
        x5    == x4 + lenx4
        \* third quadrant: the taller half at the bottom when temp2y is odd
        y8     == y + tempy
        leny8  == IF temp2y % 2 = 0 THEN temp2y \div 2 ELSE (temp2y + 1) \div 2 - 1
        leny10 == IF temp2y % 2 = 0 THEN leny8 ELSE (temp2y + 1) \div 2
        y10    == y8 + leny8
    IN  PutNodes(qtree, start,
          q1 \o
          << QNode(x4, y, lenx4, q1[1].leny),
             QNode(x5, y, lenx5, q1[1].leny),
             QNode(x4, q1[3].y, lenx4, q1[3].leny),
             QNode(x5, q1[3].y, lenx5, q1[3].leny),
             QNode(x, y8, q1[1].lenx, leny8),
             QNode(q1[2].x, y8, q1[2].lenx, leny8),
             QNode(x, y10, q1[1].lenx, leny10),
             QNode(q1[2].x, y10, q1[2].lenx, leny10),
             QNode(x4, y8, lenx4, leny8),
             QNode(x5, y8, lenx5, leny8),
             QNode(x4, y10, lenx4, leny10),
             QNode(x5, y10, lenx5, leny10) >>)

qtree4(qtree, start, lenx, leny, x, y) == PutNodes(qtree, start, Quarter(x, y, lenx, leny))

\* qtree16 for the region of wtree node n.
QTree16Of(qtree, start, w, rw, cl) == qtree16(qtree, start, w.lenx, w.leny, w.x, w.y, rw, cl)

buildQTree(token, qtreelen) ==
    [token EXCEPT !.qtree =
       qtree4(QTree16Of(QTree16Of(QTree16Of(QTree16Of(
                [i \in 1 .. qtreelen |-> QNode(0, 0, 0, 0)],
                3, token.wtree[15], 0, 0),
                19, token.wtree[5], 0, 1),
                48, token.wtree[1], 0, 0),
                35, token.wtree[6], 1, 0),
              0, token.wtree[20].lenx, token.wtree[20].leny,
              token.wtree[20].x, token.wtree[20].y)]

buildWSQTrees(token, width, height) ==
    buildQTree(buildWTree(token, W_TREELEN, width, height), Q_TREELEN)

\* ------------------------------------------------------------------------
\* Huffman decoding (lines 734-933)
\* ------------------------------------------------------------------------

\* a | b and a & b for non-negative integers.
RECURSIVE BitOr(_, _)
BitOr(a, b) ==
    IF a = 0 THEN b
    ELSE IF b = 0 THEN a
    ELSE (IF a % 2 = 1 \/ b % 2 = 1 THEN 1 ELSE 0) + 2 * BitOr(a \div 2, b \div 2)

RECURSIVE BitAnd(_, _)
BitAnd(a, b) ==
    IF a = 0 \/ b = 0 THEN 0
    ELSE (IF a % 2 = 1 /\ b % 2 = 1 THEN 1 ELSE 0) + 2 * BitAnd(a \div 2, b \div 2)

\* The value a read outside a typed array gives where the decoder uses it as
\* a Huffman symbol: no byte, and equal to none of the symbol ranges.
Undefined == 0 - 2

\* The locals of huffmanDecodeDataMem at its entry.
HuffLocals(size) ==
    [qdata |-> IZeros(size),
     maxcode |-> IZeros(MAX_HUFFBITS + 1),
     mincode |-> IZeros(MAX_HUFFBITS + 1),
     valptr |-> IZeros(MAX_HUFFBITS + 1),
     marker |-> 0, bitCount |-> 0, nextByte |-> 0, hufftableId |-> 0, ip |-> 0]

\* A step of the Huffman loop: its value, the token and the locals after it.
OkH(v, token, h) == [ok |-> TRUE, v |-> v, token |-> token, h |-> h, err |-> NoWsqError]

\* The sizes of huffcodeTable: huffbits[i - 1] entries of size i for
\* i = 1..16 in order, then the terminating entry of size 0.
RECURSIVE SizesFrom(_, _)
SizesFrom(huffbits, i) ==
    IF i > MAX_HUFFBITS THEN <<0>>
    ELSE [j \in 1 .. huffbits[i] |-> i] \o SizesFrom(huffbits, i + 1)

buildHuffsizes(huffbits, maxHuffcounts) ==
    [k \in 1 .. SumSeq(huffbits) + 1 |->
       [size |-> SizesFrom(huffbits, 1)[k], code |-> 0]]

\* The outer do-loop of buildHuffcodes from the store into
\* huffcodeTable[pointer]: the code is stored and counted up while the size
\* stays, and shifted left once per size step to the next size.
RECURSIVE AssignCodes(_, _, _, _)
AssignCodes(huffcodeTable, pointer, tempCode, tempSize) ==
    With([huffcodeTable EXCEPT ![pointer + 1].code = tempCode], LAMBDA t :
      IF t[pointer + 2].size = tempSize
      THEN AssignCodes(t, pointer + 1, tempCode + 1, tempSize)
      ELSE IF t[pointer + 2].size = 0 THEN t
      ELSE AssignCodes(t, pointer + 1,
                       (tempCode + 1) * 2 ^ (t[pointer + 2].size - tempSize),
                       t[pointer + 2].size))

\* buildHuffcodes that counts the code up and never shifts it.
buildHuffcodes_NoShift(huffcodeTable) ==
    [k \in 1 .. Len(huffcodeTable) |->
       IF huffcodeTable[k].size = 0 THEN huffcodeTable[k]
       ELSE [huffcodeTable[k] EXCEPT !.code = k - 1]]

buildHuffcodes(huffcodeTable) ==
    IF huffcodeTable[1].size = 0 THEN huffcodeTable
    ELSE AssignCodes(huffcodeTable, 0, 0, huffcodeTable[1].size)

\* genDecodeTable from length i on, i2 the index of the first code of it.
RECURSIVE GenFrom(_, _, _, _, _)
GenFrom(huffcodeTable, huffbits, i, i2, d) ==
    IF i > MAX_HUFFBITS THEN d
    ELSE IF huffbits[i] = 0
    THEN GenFrom(huffcodeTable, huffbits, i + 1, i2,
                 [d EXCEPT !.maxcode[i + 1] = 0 - 1])
    ELSE GenFrom(huffcodeTable, huffbits, i + 1, i2 + huffbits[i],
                 [d EXCEPT !.valptr[i + 1]  = i2,
                           !.mincode[i + 1] = huffcodeTable[i2 + 1].code,
                           !.maxcode[i + 1] = huffcodeTable[i2 + huffbits[i]].code])

genDecodeTable(huffcodeTable, huffbits) ==
    GenFrom(huffcodeTable, huffbits, 1, 0,
            [maxcode |-> IZeros(MAX_HUFFBITS + 1),
             mincode |-> IZeros(MAX_HUFFBITS + 1),
             valptr  |-> IZeros(MAX_HUFFBITS + 1)])

\* The bits of getCNextbitsWSQ once nextByte holds unread bits (lines 919-932);
\* more(t, g, n) is the recursive call for the bits the byte lacks.
TakeBits(token, h, bitsReq, more(_, _, _)) ==
    IF bitsReq <= h.bitCount
    THEN OkH(BitAnd(h.nextByte \div 2 ^ (h.bitCount - bitsReq), BITMASK[bitsReq + 1]),
             token,
             [h EXCEPT !.bitCount = @ - bitsReq,
                       !.nextByte = BitAnd(@, BITMASK[h.bitCount - bitsReq + 1])])
    ELSE Bind(more(token, [h EXCEPT !.bitCount = 0], bitsReq - h.bitCount), LAMBDA r :
           OkH(BitOr(h.nextByte * 2 ^ (bitsReq - h.bitCount), r.v), r.token, r.h))

RECURSIVE getCNextbitsWSQ(_, _, _)
getCNextbitsWSQ(token, h, bitsReq) ==
    IF h.bitCount # 0 THEN TakeBits(token, h, bitsReq, getCNextbitsWSQ)
    ELSE Bind(readByte(token), LAMBDA r1 :
           IF r1.v # 255
           THEN TakeBits(r1.token, [h EXCEPT !.nextByte = r1.v, !.bitCount = 8],
                         bitsReq, getCNextbitsWSQ)
           ELSE Bind(readByte(r1.token), LAMBDA r2 :
                  IF r2.v # 0 /\ bitsReq = 1
                  THEN OkH(1, r2.token,
                           [h EXCEPT !.nextByte = r1.v, !.bitCount = 8,
                                     !.marker = BitOr(r1.v * 256, r2.v)])
                  ELSE IF r2.v # 0
                  THEN Throw(WsqDecodeError("getCNextbitsWSQ: No stuffed zeros",
                                            r2.token.pointer), r2.token)
                  ELSE TakeBits(r2.token, [h EXCEPT !.nextByte = r1.v, !.bitCount = 8],
                                bitsReq, getCNextbitsWSQ)))

\* The loop of decodeDataMem: one more bit while code > maxcode[inx];
\* maxcode[17] is undefined and ends the loop.
\* huffvalues[inx2] of decodeDataMem: undefined when inx2 is outside the
\* array, or when inx is 17 and valptr[inx] is undefined.
SymbolAt(token, h, code, inx) ==
    IF inx > MAX_HUFFBITS THEN Undefined
    ELSE With(h.valptr[inx + 1] + code - h.mincode[inx + 1], LAMBDA inx2 :
           IF inx2 < 0 \/ inx2 >= MAX_HUFFCOUNTS_WSQ + 1 THEN Undefined
           ELSE token.tableDHT[h.hufftableId + 1].huffvalues[inx2 + 1])

RECURSIVE DecodeFrom(_, _, _, _)
DecodeFrom(token, h, code, inx) ==
    IF inx <= MAX_HUFFBITS /\ code > h.maxcode[inx + 1]
    THEN Bind(getCNextbitsWSQ(token, h, 1), LAMBDA r :
           IF r.h.marker # 0 THEN OkH(0 - 1, r.token, r.h)
           ELSE DecodeFrom(r.token, r.h, code * 2 + r.v, inx + 1))
    ELSE OkH(SymbolAt(token, h, code, inx), token, h)

decodeDataMem(token, h) ==
    Bind(getCNextbitsWSQ(token, h, 1), LAMBDA r :
      IF r.h.marker # 0 THEN OkH(0 - 1, r.token, r.h)
      ELSE DecodeFrom(r.token, r.h, r.v, 1))

\* qdata[ip++] = v
Emit(h, v) == [h EXCEPT !.qdata = TWrite(@, h.ip, v), !.ip = @ + 1]

\* n times qdata[ip++] = 0
EmitZeros(h, n) ==
    [h EXCEPT !.qdata = [i \in 1 .. Len(@) |->
                           IF i - 1 >= h.ip /\ i - 1 < h.ip + n THEN 0 ELSE @[i]],
              !.ip = IF n > 0 THEN @ + n ELSE @]

\* The symbols with bits after them: 101..106 take 8 or 16 more bits.
EmitBits(token, h, nodeptr) ==
    Bind(getCNextbitsWSQ(token, h, IF nodeptr \in {101, 102, 105} THEN 8 ELSE 16),
      LAMBDA r :
        OkH(0, r.token,
            CASE nodeptr \in {101, 103} -> Emit(r.h, r.v)
              [] nodeptr \in {102, 104} -> Emit(r.h, 0 - r.v)
              [] OTHER                  -> EmitZeros(r.h, r.v)))

\* The decode tables of a Huffman table (lines 765-767).
DecodeTables(huffbits) ==
    genDecodeTable(buildHuffcodes(buildHuffsizes(huffbits, MAX_HUFFCOUNTS_WSQ)), huffbits)

\* The SOB block header of one pass of the loop (lines 756-770).
BlockHeader(token, h) ==
    Bind(ReadRun(token, <<2, 1>>), LAMBDA r :
      IF r.v[2] >= MAX_DHT_TABLES THEN Throw(TypeError(r.token.pointer), r.token)
      ELSE IF r.token.tableDHT[r.v[2] + 1].tabdef # 1
      THEN Throw(WsqDecodeError("Huffman table undefined", r.token.pointer), r.token)
      ELSE With(DecodeTables(r.token.tableDHT[r.v[2] + 1].huffbits), LAMBDA d :
             OkH(0, r.token,
                 [h EXCEPT !.hufftableId = r.v[2], !.maxcode = d.maxcode,
                           !.mincode = d.mincode, !.valptr = d.valptr,
                           !.bitCount = 0, !.marker = 0])))

\* DecodeSymbol that stores a zero for a symbol a marker cut short.
DecodeSymbol_WritesOnMarker(token, h) ==
    Bind(decodeDataMem(token, h), LAMBDA r :
      IF r.v = 0 - 1 THEN OkH(0, r.token, Emit(r.h, 0))
      ELSE IF r.v > 0 /\ r.v <= 100 THEN OkH(0, r.token, EmitZeros(r.h, r.v))
      ELSE IF r.v > 106 /\ r.v < 255 THEN OkH(0, r.token, Emit(r.h, r.v - 180))
      ELSE IF r.v \in 101 .. 106 THEN EmitBits(r.token, r.h, r.v)
      ELSE Throw(WsqDecodeError("Invalid Huffman code", r.token.pointer), r.token))

\* The decode of the next symbol and its effect on qdata (lines 774-815).
DecodeSymbol(token, h) ==
    Bind(decodeDataMem(token, h), LAMBDA r :
      IF r.v = 0 - 1 THEN r
      ELSE IF r.v > 0 /\ r.v <= 100 THEN OkH(0, r.token, EmitZeros(r.h, r.v))
      ELSE IF r.v > 106 /\ r.v < 255 THEN OkH(0, r.token, Emit(r.h, r.v - 180))
      ELSE IF r.v \in 101 .. 106 THEN EmitBits(r.token, r.h, r.v)
      ELSE Throw(WsqDecodeError("Invalid Huffman code", r.token.pointer), r.token))

\* ------------------------------------------------------------------------
\* Unquantization (lines 937-970)
\* ------------------------------------------------------------------------

\* The coefficient written for sip[sptr]; a read past sip is undefined, which
\* is neither 0 nor positive and turns the arithmetic into NaN.
Unquantized(sip, sptr, qBin, zBin, binCenter) ==
    LET half == FMul(zBin, Frac(1, 2))
    IN  IF sptr < 0 \/ sptr >= Len(sip) THEN FNaN
        ELSE IF sip[sptr + 1] = 0 THEN FZero
        ELSE IF sip[sptr + 1] > 0
        THEN FAdd(FMul(qBin, FSub(FInt(sip[sptr + 1]), binCenter)), half)
        ELSE FSub(FMul(qBin, FAdd(FInt(sip[sptr + 1]), binCenter)), half)

\* The coefficients each subband takes from sip: none where the loop skips
\* the subband because qBin[cnt] is 0.
BandAreas(token) ==
    [c \in 1 .. NUM_SUBBANDS |->
       IF FIsZero(token.tableDQT.qBin[c]) THEN 0
       ELSE token.qtree[c].lenx * token.qtree[c].leny] \o <<>>

\* BandIndex that goes down the columns of the subband.
BandIndex_ColumnMajor(token, cnt, width, k) ==
    LET q == token.qtree[cnt + 1]
    IN  (q.y + (k % q.leny)) * width + q.x + (k \div q.leny)

\* fptr at coefficient k = row * lenx + col of subband cnt.
BandIndex(token, cnt, width, k) ==
    LET q == token.qtree[cnt + 1]
    IN  (q.y + (k \div q.lenx)) * width + q.x + (k % q.lenx)

\* The loops over cnt, row and col, with sptr at the start of each subband
\* given: fip[idx] is what the last store to idx left there, and 0.0 where
\* none stored.
UnquantizeFrom(sip, token, width, height, areas, starts) ==
    LET stores == {s \in (0 .. NUM_SUBBANDS - 1) \X (0 .. width * height) :
                     s[2] < areas[s[1] + 1]}
        later(s, t) == s[1] > t[1] \/ (s[1] = t[1] /\ s[2] >= t[2])
    IN  [i \in 1 .. width * height |->
           LET at   == {s \in stores : BandIndex(token, s[1], width, s[2]) = i - 1}
               last == CHOOSE s \in at : \A t \in at : later(s, t)
           IN  IF at = {} THEN FZero
               ELSE Unquantized(sip, starts[last[1] + 1] + last[2],
                                token.tableDQT.qBin[last[1] + 1],
                                token.tableDQT.zBin[last[1] + 1],
                                token.tableDQT.binCenter)]

UnquantizeAll(sip, token, width, height) ==
    With(BandAreas(token), LAMBDA areas :
      UnquantizeFrom(sip, token, width, height, areas,
                     Offsets(areas, 1, NUM_SUBBANDS, 0)))

\* unquantize without its check of dqtDef.
unquantize_NoCheck(token, sip, width, height) ==
    Ok(UnquantizeAll(sip, token, width, height), token)

unquantize(token, sip, width, height) ==
    IF token.tableDQT.dqtDef # 1
    THEN Throw(WsqDecodeError("Quantization table not defined", token.pointer), token)
    ELSE Ok(UnquantizeAll(sip, token, width, height), token)

\* ------------------------------------------------------------------------
\* Wavelet reconstruction (lines 974-1262)
\* ------------------------------------------------------------------------

\* for (i = ...; i < lsz; i += 2) of a low-pass tap (lines 1115-1126).
RECURSIVE LoInner(_, _, _, _, _, _, _, _)
LoInner(c, newdata, limg, i, lpx, lpxstr, lle, lre) ==
    IF i >= c.lsz THEN newdata
    ELSE LET atL   == lpx = c.lp0
             str1  == IF atL THEN (IF lle # 0 THEN 0 ELSE c.pstr) ELSE lpxstr
             lle1  == IF atL THEN 0 ELSE lle
             atR   == lpx = c.lp1
             str2  == IF atR THEN (IF lre # 0 THEN 0 ELSE c.nstr) ELSE str1
             lre1  == IF atR THEN 0 ELSE lre
             lpx1  == lpx + str2
         IN  LoInner(c,
                     TWrite(newdata, limg,
                            FAdd(FRead(newdata, limg),
                                 FMul(FRead(c.olddata, lpx1), FRead(c.lo, i)))),
                     limg, i + 2, lpx1, str2, lle1, lre1)

\* for (tap = ...; tap >= lowest; tap--) of the low-pass taps.
RECURSIVE LoTaps(_, _, _, _)
LoTaps(c, st, tap, lowest) ==
    IF tap < lowest THEN st
    ELSE LET first == TWrite(st.newdata, st.limg,
                             FMul(FRead(c.olddata, st.lspx), FRead(c.lo, tap)))
         IN  LoTaps(c,
                    [st EXCEPT !.newdata = LoInner(c, first, st.limg, tap + 2, st.lspx,
                                                   st.lspxstr, st.lle2, st.lre2),
                               !.limg = @ + c.pstr],
                    tap - 1, lowest)

\* for (i = tap; i < hsz; i += 2) of a high-pass tap (lines 1144-1166).
RECURSIVE HiInner(_, _, _, _, _, _, _, _, _, _)
HiInner(c, newdata, himg, i, hpx, hpxstr, hle, hre, fhre, sfac) ==
    IF i >= c.hsz THEN [newdata |-> newdata, fhre |-> fhre]
    ELSE LET atL   == hpx = c.hp0
             str1  == IF atL THEN (IF hle # 0 THEN 0 ELSE c.pstr) ELSE hpxstr
             sfac1 == IF atL /\ hle = 0 THEN 1 ELSE sfac
             hle1  == IF atL THEN 0 ELSE hle
             atR   == hpx = c.hp1
             cnt   == atR /\ hre # 0 /\ c.asym # 0 /\ c.da_ev # 0
             fhre1 == IF cnt THEN fhre - 1 ELSE fhre
             str2  == IF atR THEN (IF hre # 0 THEN 0 ELSE c.nstr) ELSE str1
             sfac2 == IF cnt THEN fhre1
                      ELSE IF atR /\ hre = 0 /\ c.asym # 0 THEN 0 - 1
                      ELSE sfac1
             hre1  == IF cnt THEN (IF fhre1 = 0 THEN 0 ELSE 1)
                      ELSE IF atR THEN 0 ELSE hre
         IN  HiInner(c,
                     TWrite(newdata, himg,
                            FAdd(FRead(newdata, himg),
                                 FMul(FMul(FRead(c.olddata, hpx), FRead(c.hi, i)),
                                      FInt(sfac2)))),
                     himg, i + 2, hpx + str2, str2, hle1, hre1, fhre1, sfac2)

\* for (tap = ...; tap >= lowest; tap--) of the high-pass taps; fhre is set
\* to ofhre at each tap when reset holds.
RECURSIVE HiTaps(_, _, _, _, _)
HiTaps(c, st, tap, lowest, reset) ==
    IF tap < lowest THEN st
    ELSE With(HiInner(c, st.newdata, st.himg, tap, st.hspx, st.hspxstr, st.hle2, st.hre2,
                      IF reset THEN c.ofhre ELSE st.fhre, st.osfac),
           LAMBDA r : HiTaps(c,
                             [st EXCEPT !.newdata = r.newdata, !.fhre = r.fhre,
                                        !.himg = @ + c.pstr],
                             tap - 1, lowest, reset))

\* The stride after if (px === p0) { if (le !== 0) str = 0 else str = pstr }.
TurnStride(px, p0, le, str, pstr) ==
    IF px = p0 THEN (IF le # 0 THEN 0 ELSE pstr) ELSE str

\* Lines 1129-1134: the low-pass start moves on.
LoAdvance(c, a) ==
    [a EXCEPT !.lspxstr = TurnStride(a.lspx, c.lp0, a.lle2, a.lspxstr, c.pstr),
              !.lle2 = IF a.lspx = c.lp0 THEN 0 ELSE @,
              !.lspx = @ + TurnStride(a.lspx, c.lp0, a.lle2, a.lspxstr, c.pstr),
              !.lstap = 1]

\* Lines 1169-1174: the high-pass start moves on.
HiAdvance(c, a) ==
    [a EXCEPT !.hspxstr = TurnStride(a.hspx, c.hp0, a.hle2, a.hspxstr, c.pstr),
              !.osfac = IF a.hspx = c.hp0 /\ a.hle2 = 0 THEN 1 ELSE @,
              !.hle2 = IF a.hspx = c.hp0 THEN 0 ELSE @,
              !.hspx = @ + TurnStride(a.hspx, c.hp0, a.hle2, a.hspxstr, c.pstr),
              !.hstap = 1]

\* for (pix = 0; pix < hlen; pix++) (lines 1107-1175).
RECURSIVE PixLoop(_, _, _, _)
PixLoop(c, st, pix, hlen) ==
    IF pix >= hlen THEN st
    ELSE With(LoAdvance(c, LoTaps(c, st, st.lstap, 0)), LAMBDA b :
           PixLoop(c, HiAdvance(c, HiTaps(c, b, b.hstap, 0, TRUE)), pix + 1, hlen))

\* for (i = 0; i < hsz; i++) hi[i] *= -1.0
FlipHi(hi, hsz) == [i \in 1 .. Len(hi) |-> IF i - 1 < hsz THEN FNeg(hi[i]) ELSE hi[i]]

\* The setup of joinLets that does not depend on the line (lines 1028-1074).
JoinSetup(len2, stride, hi, hsz, lo, lsz) ==
    LET da_ev == len2 % 2
        fi_ev == lsz % 2
        loc0  == IF fi_ev # 0 THEN (lsz - 1) \div 4 ELSE lsz \div 4 - 1
        hoc0  == IF fi_ev # 0 THEN (hsz + 1) \div 4 - 1 ELSE hsz \div 4 - 1
    IN  [da_ev |-> da_ev,
         fi_ev |-> fi_ev,
         pstr  |-> stride,
         nstr  |-> 0 - stride,
         llen  |-> IF da_ev # 0 THEN (len2 + 1) \div 2 ELSE len2 \div 2,
         hlen  |-> IF da_ev # 0 THEN (len2 + 1) \div 2 - 1 ELSE len2 \div 2,
         asym  |-> IF fi_ev # 0 THEN 0 ELSE 1,
         ssfac |-> IF fi_ev # 0 THEN 1 ELSE 0 - 1,
         ofhre |-> IF fi_ev # 0 THEN 0 ELSE 2,
         loc   |-> IF fi_ev = 0 /\ loc0 = 0 - 1 THEN 0 ELSE loc0,
         hoc   |-> IF fi_ev = 0 /\ hoc0 = 0 - 1 THEN 0 ELSE hoc0,
         lotap |-> IF fi_ev # 0 THEN ((lsz - 1) \div 2) % 2 ELSE (lsz \div 2) % 2,
         hotap |-> IF fi_ev # 0 THEN ((hsz + 1) \div 2) % 2 ELSE (hsz \div 2) % 2,
         olle  |-> IF fi_ev # 0 THEN 0 ELSE IF loc0 = 0 - 1 THEN 0 ELSE 1,
         olre  |-> IF da_ev # 0 THEN 0 ELSE 1,
         ohle  |-> IF fi_ev # 0 THEN 1 ELSE IF hoc0 = 0 - 1 THEN 0 ELSE 1,
         ohre  |-> IF fi_ev # 0 THEN (IF da_ev # 0 THEN 1 ELSE 0) ELSE 1,
         lo    |-> lo,
         lsz   |-> lsz,
         hsz   |-> hsz,
         \* for (i = 0; i < hsz; i++) hi[i] *= -1.0 when lsz is even
         hi    |-> IF fi_ev # 0 THEN hi ELSE FlipHi(hi, hsz)]

\* The pointers of one line that do not move (lines 1082-1099).
LineContext(s, olddata, lopass, hipass) ==
    [olddata |-> olddata, lo |-> s.lo, hi |-> s.hi, lsz |-> s.lsz, hsz |-> s.hsz,
     pstr |-> s.pstr, nstr |-> s.nstr, asym |-> s.asym, da_ev |-> s.da_ev,
     ofhre |-> s.ofhre,
     lp0 |-> lopass, lp1 |-> lopass + (s.llen - 1) * s.pstr,
     hp0 |-> hipass, hp1 |-> hipass + (s.hlen - 1) * s.pstr]

\* The locals of one line at the start of its pix loop (lines 1077-1105).
LineStart(s, newdata, limg, lopass, hipass, fhre) ==
    [newdata |-> TWrite(TWrite(newdata, limg, FZero), limg + s.pstr, FZero),
     limg |-> limg, himg |-> limg,
     lspx |-> lopass + s.loc * s.pstr, lspxstr |-> s.nstr, lstap |-> s.lotap,
     lle2 |-> s.olle, lre2 |-> s.olre,
     hspx |-> hipass + s.hoc * s.pstr, hspxstr |-> s.nstr, hstap |-> s.hotap,
     hle2 |-> s.ohle, hre2 |-> s.ohre, osfac |-> s.ssfac, fhre |-> fhre]

\* lstap and hstap of the last taps (lines 1178-1184, 1209-1219).
LastTap(da_ev, otap) ==
    IF da_ev # 0 THEN (IF otap # 0 THEN 1 ELSE 0) ELSE (IF otap # 0 THEN 2 ELSE 1)

\* The pix loop and the last taps of one line (lines 1107-1253).
LineTaps(s, c, st0) ==
    With(LoTaps(c, PixLoop(c, st0, 0, s.hlen), 1, LastTap(s.da_ev, s.lotap)), LAMBDA st2 :
      HiTaps(c,
             IF s.da_ev # 0 /\ s.hsz = 2
             THEN [st2 EXCEPT !.hspx = @ - st2.hspxstr, !.fhre = 1]
             ELSE st2,
             1, LastTap(s.da_ev, s.hotap), s.hsz # 2))

\* One pass of for (cl_rw = 0; cl_rw < len1; cl_rw++) (lines 1077-1253).
JoinLine(s, newdata, olddata, newIndex, oldIndex, pitch, inv, cl_rw, fhre) ==
    LET lopass == IF inv # 0 THEN oldIndex + cl_rw * pitch + s.pstr * s.hlen
                  ELSE oldIndex + cl_rw * pitch
        hipass == IF inv # 0 THEN oldIndex + cl_rw * pitch
                  ELSE oldIndex + cl_rw * pitch + s.pstr * s.llen
    IN  LineTaps(s, LineContext(s, olddata, lopass, hipass),
                 LineStart(s, newdata, newIndex + cl_rw * pitch, lopass, hipass, fhre))

RECURSIVE JoinLines(_, _, _, _, _, _, _, _, _, _)
JoinLines(s, newdata, olddata, newIndex, oldIndex, len1, pitch, inv, cl_rw, fhre) ==
    IF cl_rw >= len1 THEN newdata
    ELSE With(JoinLine(s, newdata, olddata, newIndex, oldIndex, pitch, inv, cl_rw, fhre),
           LAMBDA st : JoinLines(s, st.newdata, olddata, newIndex, oldIndex, len1, pitch,
                                 inv, cl_rw + 1, st.fhre))

\* joinLets that leaves hi as its line loop used it.
joinLets_FlipKept(newdata, olddata, newIndex, oldIndex, len1, len2, pitch, stride, hi, hsz, lo, lsz, inv) ==
    With(JoinSetup(len2, stride, hi, hsz, lo, lsz), LAMBDA s :
      [newdata |-> JoinLines(s, newdata, olddata, newIndex, oldIndex, len1, pitch,
                             inv, 0, 0),
       hi |-> s.hi])

\* joinLets: newdata after the call, and hi after its sign flip is undone.
joinLets(newdata, olddata, newIndex, oldIndex, len1, len2, pitch, stride, hi, hsz, lo, lsz, inv) ==
    With(JoinSetup(len2, stride, hi, hsz, lo, lsz), LAMBDA s :
      [newdata |-> JoinLines(s, newdata, olddata, newIndex, oldIndex, len1, pitch,
                             inv, 0, 0),
       hi |-> IF s.fi_ev # 0 THEN s.hi ELSE FlipHi(s.hi, hsz)])

\* The second joinLets of a node and what the node leaves (lines 995-1000).
ReconstructRows(token, data, a, width, n) ==
    With(joinLets(data, a.newdata, token.wtree[n + 1].y * width + token.wtree[n + 1].x, 0,
                  token.wtree[n + 1].leny, token.wtree[n + 1].lenx, width, 1,
                  a.hi, token.tableDTT.hisz, token.tableDTT.lofilt, token.tableDTT.losz,
                  token.wtree[n + 1].invrw),
         LAMBDA b : [fdata |-> b.newdata, fdataTemp |-> a.newdata,
                     token |-> [token EXCEPT !.tableDTT.hifilt = b.hi]])

\* The two joinLets of one node of wsqReconstruct (lines 986-1000).
ReconstructNode(token, data, temp, width, n) ==
    ReconstructRows(token, data,
                    joinLets(temp, data,
                             0, token.wtree[n + 1].y * width + token.wtree[n + 1].x,
                             token.wtree[n + 1].lenx, token.wtree[n + 1].leny, 1, width,
                             token.tableDTT.hifilt, token.tableDTT.hisz,
                             token.tableDTT.lofilt, token.tableDTT.losz,
                             token.wtree[n + 1].invcl),
                    width, n)

\* The checks at the entry of wsqReconstruct (lines 975-980).
ReconstructGuard(token) ==
    IF token.tableDTT.lodef # 1
    THEN Throw(WsqDecodeError("Lopass filter coefficients not defined", token.pointer), token)
    ELSE IF token.tableDTT.hidef # 1
    THEN Throw(WsqDecodeError("Hipass filter coefficients not defined", token.pointer), token)
    ELSE Ok(0, token)

\* ------------------------------------------------------------------------
\* Float to byte conversion (lines 1266-1287)
\* ------------------------------------------------------------------------

\* The pixel without its clamp to 0 and 255.
ToByte_NoClamp(v, mShift, rScale) ==
    FToInt32(FAdd(FAdd(FMul(v, rScale), mShift), Frac(1, 2)))

ToByte(v, mShift, rScale) ==
    LET pixel == FAdd(FAdd(FMul(v, rScale), mShift), Frac(1, 2))
    IN  IF FLess(pixel, FZero) THEN 0
        ELSE IF FLess(FInt(255), pixel) THEN 255
        ELSE FToInt32(pixel)

convertImageToByte(img, width, height, mShift, rScale) ==
    [idx \in 1 .. width * height |-> ToByte(FRead(img, idx - 1), mShift, rScale)]

\* ------------------------------------------------------------------------
\* WSQ streams the model decodes.  A stream is eight segments: SOI, DTT, DQT,
\* DHT, SOF, SOB, the entropy-coded bytes and EOI, with at most one edit.  All
\* scales are 0 or give a dyadic value, so every float of a decode is exact.
\* ------------------------------------------------------------------------

U16(n) == <<n \div 256, n % 256>>

RECURSIVE Flatten(_)
Flatten(segs) == IF segs = <<>> THEN <<>> ELSE Head(segs) \o Flatten(Tail(segs))

\* One compact filter coefficient: sign, scale, magnitude.
Coef(sign, scale, mag) == <<sign, scale>> \o U32(mag)

\* "odd": hifilt (-1/2, 1, -1/2), lofilt (1/2, 1, 1/2); "even": hifilt
\* (-1, 1), lofilt (1, 1); "empty": both filters of size 0.
DttSeg(kind) ==
    U16(DTT_WSQ) \o
    CASE kind = "odd"  -> U16(28) \o <<3, 3>> \o Coef(0, 0, 1) \o Coef(0, 1, 5)
                                  \o Coef(0, 0, 1) \o Coef(1, 1, 5)
      [] kind = "even" -> U16(16) \o <<2, 2>> \o Coef(0, 0, 1) \o Coef(1, 0, 1)
      [] OTHER         -> U16(4) \o <<0, 0>>

\* binCenter 1, zBin 2 and qBin 2 for every subband ("all") or for subband 48
\* alone with qBin 0 elsewhere ("sparse").
DqtSeg(kind) ==
    U16(DQT_WSQ) \o U16(389) \o <<0, 0, 1>> \o
    [i \in 1 .. 6 * MAX_SUBBANDS |->
       IF (i - 1) % 6 = 2 /\ (kind = "all" \/ (i - 1) \div 6 = 48) THEN 2
       ELSE IF (i - 1) % 6 = 5 THEN 2
       ELSE 0]

\* The symbols of the codes 0, 10 and 110: "A" has the literals +74 and -73
\* and a run of one zero, "B" the 8-bit value, the 16-bit run and symbol 0,
\* "C" the negated 8-bit value, the 16-bit value and the 8-bit run, "D" the
\* negated 16-bit value, symbol 255 and a run of 100 zeros.
HuffVals(vals) ==
    CASE vals = "A" -> <<254, 1, 107>>
      [] vals = "C" -> <<102, 103, 105>>
      [] vals = "D" -> <<104, 255, 100>>
      [] OTHER      -> <<101, 106, 0>>

RECURSIVE SubTables(_, _)
SubTables(ids, vals) ==
    IF ids = <<>> THEN <<>>
    ELSE <<Head(ids), 1, 1, 1>> \o [i \in 1 .. MAX_HUFFBITS - 3 |-> 0] \o HuffVals(vals)
         \o SubTables(Tail(ids), vals)

DhtSeg(ids, vals) == U16(DHT_WSQ) \o U16(2 + 20 * Len(ids)) \o SubTables(ids, vals)

SofSeg(w, h, mShift, rScale) ==
    U16(SOF_WSQ) \o U16(17) \o <<0, 255>> \o U16(h) \o U16(w) \o <<0>> \o U16(mShift)
    \o <<0>> \o U16(rScale) \o <<0>> \o U16(0)

\* A comment of the declared length: the two length bytes and its text.
ComSeg(len) == U16(COM_WSQ) \o U16(len) \o [i \in 1 .. Max(len - 2, 0) |-> 67]

SobSeg(id) == U16(SOB_WSQ) \o U16(3) \o <<id>>

Segments(p) ==
    << U16(SOI_WSQ), DttSeg(p.dtt), DqtSeg(p.dqt), DhtSeg(p.dht, p.vals),
       SofSeg(p.w, p.h, p.mShift, p.rScale), SobSeg(p.sob), p.payload, U16(EOI_WSQ) >>

\* The edit of a stream: segment k dropped or doubled, the stream cut before
\* segment k or one byte before its end, or cut before it with the marker m
\* as its last two bytes; table k moved behind the frame header; a comment
\* of declared length m put before segment k; both the DTT and the DQT
\* dropped; segment k and a second block put behind the entropy-coded bytes.
Edited(segs, p) ==
    CASE p.edit = "drop" -> SubSeq(segs, 1, p.k - 1) \o SubSeq(segs, p.k + 1, Len(segs))
      [] p.edit = "dup"  -> SubSeq(segs, 1, p.k) \o SubSeq(segs, p.k, Len(segs))
      [] p.edit = "mark" -> SubSeq(segs, 1, p.k - 1) \o <<U16(p.m)>>
      [] p.edit = "cut"  -> SubSeq(segs, 1, p.k - 1)
      [] p.edit = "clip" -> SubSeq(segs, 1, p.k - 1)
                            \o <<SubSeq(segs[p.k], 1, Len(segs[p.k]) - 1)>>
      [] p.edit = "late" -> SubSeq(segs, 1, p.k - 1) \o SubSeq(segs, p.k + 1, 5)
                            \o <<segs[p.k]>> \o SubSeq(segs, 6, Len(segs))
      [] p.edit = "bare" -> SubSeq(segs, 1, 1) \o SubSeq(segs, 4, Len(segs))
      [] p.edit = "again" -> SubSeq(segs, 1, 7) \o <<segs[p.k], segs[6], segs[7], segs[8]>>
      [] p.edit = "com"  -> SubSeq(segs, 1, p.k - 1) \o <<ComSeg(p.m)>>
                            \o SubSeq(segs, p.k, Len(segs))
      [] OTHER           -> segs

WsqBytes(p) == Flatten(Edited(Segments(p), p))

\* Largest width and height of a generated stream.
MaxDim == 2

\* Most entropy-coded bytes of a generated stream.
MaxPayload == 2

\* The entropy-coded bytes: 00000000, 00111111, 01111111, 10111111, 11111111.
PayloadBytes == {0, 63, 127, 191, 255}

\* Entropy-coded bytes that emit 0, 4, 1, 1, 8 and 2 coefficients with the
\* symbols "A".
SamplePayloads == {<<>>, <<15>>, <<127>>, <<223>>, <<0>>, <<191, 127>>}

\* The marker values tried in each context: 0, FFA0..FFA9.
Markers == {0} \cup (SOI_WSQ .. COM_WSQ + 1)

BaseStream ==
    [w |-> 1, h |-> 1, mShift |-> 128, rScale |-> 1, dtt |-> "odd", dqt |-> "all",
     dht |-> <<0>>, vals |-> "A", sob |-> 0, payload |-> <<127>>, edit |-> "none",
     k |-> 0, m |-> 0]

\* Every image size, with the sample payloads.
DimStreams ==
    {[BaseStream EXCEPT !.w = w, !.h = h, !.payload = q] :
        w \in 1 .. MaxDim, h \in 1 .. MaxDim, q \in SamplePayloads}

\* Every payload, on the image of MaxDim by 1.
PayloadStreams ==
    {[BaseStream EXCEPT !.w = MaxDim, !.payload = q] :
        q \in SeqsUpTo(PayloadBytes, MaxPayload)}

\* Shifts and scales that leave the pixel range on either side.
ScaleStreams ==
    {[BaseStream EXCEPT !.w = 2, !.h = 2, !.payload = q, !.mShift = m, !.rScale = r] :
        q \in {<<0>>, <<223>>}, m \in {0, 255}, r \in {0, 2}}

\* Every choice of tables and of the table a block names.
TableStreams ==
    {[BaseStream EXCEPT !.w = 2, !.dtt = t, !.dqt = q, !.dht = d, !.vals = v, !.sob = b,
                        !.payload = <<31, 127>>] :
        t \in {"odd", "even", "empty"}, q \in {"all", "sparse"},
        d \in {<<0>>, <<7>>, <<8>>, <<0, 1>>, <<0, 8>>}, v \in {"A", "B"},
        b \in {0, 1, 7, 8}}

\* Entropy-coded bytes for the symbols with operands: operands that end in
\* the payload, in a stuffed FF 00, at the end of the payload one bit short,
\* and several bits short.
SymbolPayloads ==
    {<<42, 255, 0>>, <<42>>, <<128, 1, 64>>, <<193, 128>>, <<0, 0, 128>>, <<127, 128>>,
     <<0, 1>>, <<42, 85, 254>>}

\* Every table of symbols with operands against those payloads.
SymbolStreams ==
    {[BaseStream EXCEPT !.w = 2, !.h = 2, !.vals = v, !.payload = q] :
        v \in {"B", "C", "D"}, q \in SymbolPayloads}

\* Every edit of the base stream.
EditedStreams ==
    {[BaseStream EXCEPT !.edit = e, !.k = k] :
        e \in {"drop", "dup", "cut", "clip"}, k \in 1 .. 8}
    \cup {[BaseStream EXCEPT !.edit = "mark", !.k = k, !.m = m] :
            k \in {1, 2, 5, 6, 7, 8}, m \in Markers}
    \cup {[BaseStream EXCEPT !.edit = "late", !.k = k] : k \in 2 .. 4}
    \cup {[BaseStream EXCEPT !.edit = "bare"]}
    \cup {[BaseStream EXCEPT !.edit = "com", !.k = k, !.m = m] :
            k \in {2, 6, 7, 8}, m \in {0, 1, 2, 4}}
    \cup {[BaseStream EXCEPT !.w = 2, !.edit = "again", !.k = k, !.payload = q] :
            k \in 1 .. 6, q \in {<<127>>, <<191>>}}

WsqParams ==
    DimStreams \cup PayloadStreams \cup ScaleStreams \cup TableStreams \cup EditedStreams
        \cup SymbolStreams

\* ------------------------------------------------------------------------
\* decodeWsq as a state machine (lines 113-148)
\* ------------------------------------------------------------------------

\* parseEft is not called while decodeWsq runs.
EftIdle ==
    /\ eftBuf = <<>>
    /\ eftOffset = 0
    /\ epc = "idle"
    /\ type1 = NoAscii
    /\ recordList = <<>>
    /\ type2 = NoAscii
    /\ type4Records = <<>>
    /\ entryIdx = 1
    /\ type4Offsets = <<>>
    /\ eftResult = None
    /\ eftError = NoError

\* The locals marker, header, width and height of decodeWsq before they
\* are set.
NoFrame ==
    [marker |-> 0, width |-> 0, height |-> 0,
     header |-> [black |-> 0, white |-> 0, height |-> 0, width |-> 0, mShift |-> FZero,
                 rScale |-> FZero, wsqEncoder |-> 0, software |-> 0]]

\* How a call ended: what it returned or what it threw.
Outcome == [result |-> wsqResult, error |-> wsqError]

\* const token = new Token(data); token.initialize()
WsqEnter(buffer) ==
    /\ tok = initialize(TokenNew(buffer))
    /\ frame = NoFrame
    /\ huff = HuffLocals(0)
    /\ fdata = <<>>
    /\ fdataTemp = <<>>
    /\ node = 0
    /\ pc = "soi"
    /\ wsqResult = None
    /\ wsqError = NoWsqError

WsqInit ==
    /\ EftIdle
    /\ HelpersIdle
    /\ FnIdle
    /\ \E p \in WsqParams : WsqEnter(WsqBytes(p))
    /\ callsLeft = 0
    /\ seen = <<>>

\* A throw out of decodeWsq: the call ends with the error and returns nothing.
WsqThrow(err, token) ==
    /\ pc' = "error"
    /\ wsqError' = err
    /\ tok' = token
    /\ UNCHANGED wsqResult

\* getCMarkerWSQ(token, SOI_WSQ)
WsqSoi ==
    /\ UNCHANGED <<evars, hvars, fvars>>
    /\ pc = "soi"
    /\ LET r == getCMarkerWSQ(tok, SOI_WSQ)
       IN  IF r.ok
           THEN /\ tok' = r.token
                /\ pc' = "tables"
                /\ UNCHANGED <<wsqResult, wsqError>>
           ELSE WsqThrow(r.err, r.token)
    /\ UNCHANGED <<frame, huff, fdata, fdataTemp, node, callsLeft, seen>>

\* marker = getCMarkerWSQ(token, TBLS_N_SOF), and one pass of
\* while (marker !== SOF_WSQ) getCTableWSQ(token, marker).
WsqTables ==
    /\ UNCHANGED <<evars, hvars, fvars>>
    /\ pc = "tables"
    /\ LET r == getCMarkerWSQ(tok, TBLS_N_SOF)
           t == getCTableWSQ(r.token, r.v)
       IN  IF ~r.ok THEN WsqThrow(r.err, r.token) /\ UNCHANGED frame
           ELSE IF r.v = SOF_WSQ
           THEN /\ tok' = r.token
                /\ frame' = [frame EXCEPT !.marker = r.v]
                /\ pc' = "frame"
                /\ UNCHANGED <<wsqResult, wsqError>>
           ELSE IF ~t.ok
           THEN WsqThrow(t.err, t.token) /\ frame' = [frame EXCEPT !.marker = r.v]
           ELSE /\ tok' = t.token
                /\ frame' = [frame EXCEPT !.marker = r.v]
                /\ UNCHANGED <<pc, wsqResult, wsqError>>
    /\ UNCHANGED <<huff, fdata, fdataTemp, node, callsLeft, seen>>

\* header = getCFrameHeaderWSQ(token); buildWSQTrees(token, width, height)
WsqFrame ==
    /\ UNCHANGED <<evars, hvars, fvars>>
    /\ pc = "frame"
    /\ LET r == getCFrameHeaderWSQ(tok)
       IN  IF r.ok
           THEN /\ tok' = buildWSQTrees(r.token, r.v.width, r.v.height)
                /\ frame' = [frame EXCEPT !.header = r.v, !.width = r.v.width,
                                          !.height = r.v.height]
                /\ pc' = "huffstart"
                /\ UNCHANGED <<wsqResult, wsqError>>
           ELSE WsqThrow(r.err, r.token) /\ UNCHANGED frame
    /\ UNCHANGED <<huff, fdata, fdataTemp, node, callsLeft, seen>>

\* The entry of huffmanDecodeDataMem up to its first marker (lines 735-745).
WsqHuffStart ==
    /\ UNCHANGED <<evars, hvars, fvars>>
    /\ pc = "huffstart"
    /\ LET r == getCMarkerWSQ(tok, TBLS_N_SOB)
       IN  IF r.ok
           THEN /\ tok' = r.token
                /\ huff' = [HuffLocals(frame.width * frame.height) EXCEPT !.marker = r.v]
                /\ pc' = "huff"
                /\ UNCHANGED <<wsqResult, wsqError>>
           ELSE WsqThrow(r.err, r.token) /\ UNCHANGED huff
    /\ UNCHANGED <<frame, fdata, fdataTemp, node, callsLeft, seen>>

\* One pass of while (marker.value !== SOB_WSQ): a table, then the next marker.
WsqHuffTable ==
    /\ UNCHANGED <<evars, hvars, fvars>>
    /\ pc = "huff"
    /\ huff.marker \notin {0, SOB_WSQ, EOI_WSQ}
    /\ LET t == getCTableWSQ(tok, huff.marker)
           r == getCMarkerWSQ(t.token, TBLS_N_SOB)
       IN  IF ~t.ok THEN WsqThrow(t.err, t.token) /\ UNCHANGED huff
           ELSE IF ~r.ok THEN WsqThrow(r.err, r.token) /\ UNCHANGED huff
           ELSE /\ tok' = r.token
                /\ huff' = [huff EXCEPT !.marker = r.v]
                /\ UNCHANGED <<pc, wsqResult, wsqError>>
    /\ UNCHANGED <<frame, fdata, fdataTemp, node, callsLeft, seen>>

\* The SOB block header and the decode tables of its Huffman table.
WsqHuffBlock ==
    /\ UNCHANGED <<evars, hvars, fvars>>
    /\ pc = "huff"
    /\ huff.marker = SOB_WSQ
    /\ LET r == BlockHeader(tok, huff)
       IN  IF r.ok
           THEN /\ tok' = r.token
                /\ huff' = r.h
                /\ UNCHANGED <<pc, wsqResult, wsqError>>
           ELSE WsqThrow(r.err, r.token) /\ UNCHANGED huff
    /\ UNCHANGED <<frame, fdata, fdataTemp, node, callsLeft, seen>>

\* The decode of one Huffman symbol into qdata.
WsqHuffSymbol ==
    /\ UNCHANGED <<evars, hvars, fvars>>
    /\ pc = "huff"
    /\ huff.marker = 0
    /\ LET r == DecodeSymbol(tok, huff)
       IN  IF r.ok
           THEN /\ tok' = r.token
                /\ huff' = r.h
                /\ UNCHANGED <<pc, wsqResult, wsqError>>
           ELSE WsqThrow(r.err, r.token) /\ UNCHANGED huff
    /\ UNCHANGED <<frame, fdata, fdataTemp, node, callsLeft, seen>>

\* marker.value === EOI_WSQ: huffmanDecodeDataMem returns qdata.
WsqHuffEnd ==
    /\ UNCHANGED <<evars, hvars, fvars>>
    /\ pc = "huff"
    /\ huff.marker = EOI_WSQ
    /\ pc' = "unquantize"
    /\ UNCHANGED <<tok, frame, huff, fdata, fdataTemp, node, wsqResult, wsqError,
                   callsLeft, seen>>

\* fdata = unquantize(token, qdata, width, height)
WsqUnquantize ==
    /\ UNCHANGED <<evars, hvars, fvars>>
    /\ pc = "unquantize"
    /\ LET r == unquantize(tok, huff.qdata, frame.width, frame.height)
       IN  IF r.ok
           THEN /\ fdata' = r.v
                /\ pc' = "reconstruct"
                /\ UNCHANGED <<tok, wsqResult, wsqError>>
           ELSE WsqThrow(r.err, r.token) /\ UNCHANGED fdata
    /\ UNCHANGED <<frame, huff, fdataTemp, node, callsLeft, seen>>

\* The entry of wsqReconstruct: its checks and fdataTemp.
WsqReconstruct ==
    /\ UNCHANGED <<evars, hvars, fvars>>
    /\ pc = "reconstruct"
    /\ LET r == ReconstructGuard(tok)
       IN  IF r.ok
           THEN /\ fdataTemp' = FZeros(frame.width * frame.height)
                /\ node' = W_TREELEN - 1
                /\ pc' = "node"
                /\ UNCHANGED <<tok, wsqResult, wsqError>>
           ELSE WsqThrow(r.err, r.token) /\ UNCHANGED <<fdataTemp, node>>
    /\ UNCHANGED <<frame, huff, fdata, callsLeft, seen>>

\* One pass of for (node = W_TREELEN - 1; node >= 0; node--).
WsqNode ==
    /\ UNCHANGED <<evars, hvars, fvars>>
    /\ pc = "node"
    /\ node >= 0
    /\ LET r == ReconstructNode(tok, fdata, fdataTemp, frame.width, node)
       IN  /\ fdata' = r.fdata
           /\ fdataTemp' = r.fdataTemp
           /\ tok' = r.token
    /\ node' = node - 1
    /\ UNCHANGED <<frame, huff, pc, wsqResult, wsqError, callsLeft, seen>>

\* pixels = convertImageToByte(...); return { width, height, pixels }
WsqReturn ==
    /\ UNCHANGED <<evars, hvars, fvars>>
    /\ pc = "node"
    /\ node < 0
    /\ wsqResult' = Some([width  |-> frame.width,
                          height |-> frame.height,
                          pixels |-> convertImageToByte(fdata, frame.width, frame.height,
                                                        frame.header.mShift,
                                                        frame.header.rScale)])
    /\ pc' = "done"
    /\ UNCHANGED <<tok, frame, huff, fdata, fdataTemp, node, wsqError, callsLeft, seen>>

\* Most calls of decodeWsq after the first one of a session.
MaxCalls == 2

\* The streams of a session: decoded, failing in unquantize, with the
\* quantization table behind the frame header, failing in the Huffman loop,
\* and a 2 by 2 image.
SessionStreams ==
    {BaseStream,
     [BaseStream EXCEPT !.edit = "drop", !.k = 3],
     [BaseStream EXCEPT !.edit = "late", !.k = 3],
     [BaseStream EXCEPT !.edit = "cut", !.k = 7],
     [BaseStream EXCEPT !.w = 2, !.h = 2, !.payload = <<15>>]}

\* The locals of a call of decodeWsq at its entry, and the call before it
\* put on record.
WsqEnterNext(token) ==
    /\ tok' = token
    /\ frame' = NoFrame
    /\ huff' = HuffLocals(0)
    /\ fdata' = <<>>
    /\ fdataTemp' = <<>>
    /\ node' = 0
    /\ pc' = "soi"
    /\ wsqResult' = None
    /\ wsqError' = NoWsqError
    /\ callsLeft' = callsLeft - 1
    /\ seen' = Append(seen, [buffer |-> tok.buffer, outcome |-> Outcome])

\* A call whose token is the one the call before it left, with the new
\* buffer.
WsqCall_KeepToken ==
    /\ UNCHANGED <<evars, hvars, fvars>>
    /\ pc \in {"done", "error"}
    /\ callsLeft > 0
    /\ \E p \in SessionStreams :
         WsqEnterNext([tok EXCEPT !.buffer = WsqBytes(p), !.pointer = 0])

\* The next call of decodeWsq once a call has returned or thrown:
\* const token = new Token(data); token.initialize()
WsqCall ==
    /\ UNCHANGED <<evars, hvars, fvars>>
    /\ pc \in {"done", "error"}
    /\ callsLeft > 0
    /\ \E p \in SessionStreams : WsqEnterNext(initialize(TokenNew(WsqBytes(p))))

WsqNext ==
    \/ WsqSoi
    \/ WsqTables
    \/ WsqFrame
    \/ WsqHuffStart
    \/ WsqHuffTable
    \/ WsqHuffBlock
    \/ WsqHuffSymbol
    \/ WsqHuffEnd
    \/ WsqUnquantize
    \/ WsqReconstruct
    \/ WsqNode
    \/ WsqReturn

SpecWsq == WsqInit /\ [][WsqNext]_vars

\* decodeWsq runs on: a call that has not ended takes its next step.  This is
\* WF_vars(WsqNext) with the steps of WsqNext enabled until the call has
\* returned or thrown.
SpecWsqFair ==
    SpecWsq /\ ([]<>(pc \in {"done", "error"}) \/ []<><<WsqNext>>_vars)

\* A session: a first call and up to MaxCalls calls after it.
WsqSessionInit ==
    /\ EftIdle
    /\ HelpersIdle
    /\ FnIdle
    /\ \E p \in SessionStreams : WsqEnter(WsqBytes(p))
    /\ callsLeft = MaxCalls
    /\ seen = <<>>

WsqSessionNext ==
    \/ WsqNext
    \/ WsqCall

SpecWsqSession == WsqSessionInit /\ [][WsqSessionNext]_vars

\* ------------------------------------------------------------------------
\* Properties of decodeWsq
\* ------------------------------------------------------------------------

\* The 16 bits at pos of a buffer.
ShortAt(buffer, pos) == buffer[pos + 1] * 256 + buffer[pos + 2]

\* The segments of a stream from pos up to its first block, each with its
\* marker and its place, as their declared lengths lay them out.
RECURSIVE SegmentsFrom(_, _)
SegmentsFrom(buffer, pos) ==
    IF pos + 4 > Len(buffer) THEN <<>>
    ELSE IF ShortAt(buffer, pos) \notin {DTT_WSQ, DQT_WSQ, DHT_WSQ, COM_WSQ, SOF_WSQ}
    THEN <<>>
    ELSE IF pos + 2 + ShortAt(buffer, pos + 2) > Len(buffer) THEN <<>>
    ELSE <<[marker |-> ShortAt(buffer, pos), at |-> pos]>>
         \o SegmentsFrom(buffer, pos + 2 + ShortAt(buffer, pos + 2))

\* How many segments with the given marker the stream of this call holds.
NumTables(marker) ==
    Cardinality({i \in DOMAIN SegmentsFrom(tok.buffer, 2) :
                   SegmentsFrom(tok.buffer, 2)[i].marker = marker})

\* Where the frame header of the stream of this call starts.
SofAt ==
    LET segs == SegmentsFrom(tok.buffer, 2)
    IN  segs[CHOOSE i \in DOMAIN segs : segs[i].marker = SOF_WSQ].at

\* The call threw after huffmanDecodeDataMem had returned.
FailedAfterHuffman == pc = "error" /\ huff.marker = EOI_WSQ

\* C1: decodeWsq either returns a complete {width, height, pixels} or throws
\* a WsqDecodeError, never another kind of error (a DHT sub-table id or a
\* SOB table id outside 0..7 included), and a call that throws returns
\* nothing.
C1_DecodeContract ==
    /\ pc = "error" => wsqError.kind = "WsqDecodeError" /\ wsqResult = None
    /\ pc = "done" =>
          /\ wsqError = NoWsqError
          /\ wsqResult # None
          /\ Len(wsqResult[1].pixels) = wsqResult[1].width * wsqResult[1].height
    /\ pc \notin {"done", "error"} => wsqResult = None

\* C3: whenever decodeWsq returns, width and height are those of the SOF
\* header, pixels has width * height entries and every entry is an integer
\* in 0..255.
C3_PixelRange ==
    pc = "done" =>
       /\ wsqResult[1].height = ShortAt(tok.buffer, SofAt + 6)
       /\ wsqResult[1].width = ShortAt(tok.buffer, SofAt + 8)
       /\ DOMAIN wsqResult[1].pixels = 1 .. wsqResult[1].width * wsqResult[1].height
       /\ \A i \in DOMAIN wsqResult[1].pixels : wsqResult[1].pixels[i] \in 0 .. 255

\* A returned 2 by 2 image with a pixel above 255 before its clamp, one
\* below 0 or not a number, and one inside the range.
C3_Witness ==
    /\ pc = "done"
    /\ wsqResult[1].width = 2
    /\ wsqResult[1].height = 2
    /\ \E i \in 1 .. 4 :
         /\ FLess(FInt(255), FAdd(FMul(fdata[i], frame.header.rScale), frame.header.mShift))
         /\ wsqResult[1].pixels[i] = 255
    /\ \E i \in 1 .. 4 : wsqResult[1].pixels[i] \in 1 .. 254

\* C7: a call of decodeWsq ends as every earlier call of the session on the
\* same bytes ended, whatever calls ran before or between them.
C7_SameOutcome ==
    pc \in {"done", "error"} =>
       \A i \in DOMAIN seen : seen[i].buffer = tok.buffer => seen[i].outcome = Outcome

\* A third call that returned on the bytes of the first call, with a call
\* that threw on other bytes between them.
C7_Witness ==
    /\ pc = "done"
    /\ Len(seen) = 2
    /\ seen[1].buffer = tok.buffer
    /\ seen[2].buffer # tok.buffer
    /\ seen[2].outcome.error.kind = "WsqDecodeError"

\* C8: whenever decodeWsq succeeds, the Huffman loop has emitted exactly
\* width * height coefficients up to EOI.
C8_CoefficientCount ==
    pc = "done" => huff.ip = frame.width * frame.height

\* C9 as stated: decodeWsq returns pixels only if exactly one DQT and
\* exactly one DTT were read from the stream.
C9_ExactlyOne ==
    pc = "done" => NumTables(DQT_WSQ) = 1 /\ NumTables(DTT_WSQ) = 1

\* C9: decodeWsq returns pixels only if at least one DQT and at least one
\* DTT were read from the stream; past the Huffman loop a stream with no DQT
\* fails with 'Quantization table not defined', with or without a DTT, and
\* one with a DQT and no DTT with '... filter coefficients not defined'.
C9_TablesDefined ==
    /\ pc = "done" => NumTables(DQT_WSQ) >= 1 /\ NumTables(DTT_WSQ) >= 1
    /\ FailedAfterHuffman /\ NumTables(DQT_WSQ) = 0 =>
          /\ wsqError.kind = "WsqDecodeError"
          /\ wsqError.msg = "Quantization table not defined"
    /\ FailedAfterHuffman /\ NumTables(DQT_WSQ) >= 1 /\ NumTables(DTT_WSQ) = 0 =>
          /\ wsqError.kind = "WsqDecodeError"
          /\ wsqError.msg \in {"Lopass filter coefficients not defined",
                               "Hipass filter coefficients not defined"}
    /\ pc \in {"reconstruct", "node"} => NumTables(DQT_WSQ) >= 1
    /\ pc = "node" => NumTables(DTT_WSQ) >= 1

\* A returned image of a stream with two DQT segments.
C9_Witness ==
    /\ pc = "done"
    /\ NumTables(DQT_WSQ) = 2
    /\ NumTables(DTT_WSQ) = 1

\* The markers of the two table contexts.
PreFrameMarkers == {DTT_WSQ, DQT_WSQ, DHT_WSQ, SOF_WSQ, COM_WSQ, EOI_WSQ}

PreBlockMarkers == {DTT_WSQ, DQT_WSQ, DHT_WSQ, SOB_WSQ, COM_WSQ, EOI_WSQ}

\* The step ends the call with a WsqDecodeError of the given message.
FailsWith(msg) ==
    /\ pc' = "error"
    /\ wsqError'.kind = "WsqDecodeError"
    /\ wsqError'.msg = msg

\* The marker a step reads first, when the stream has two more bytes.
MarkerAhead(S) ==
    /\ tok.pointer + 2 <= Len(tok.buffer)
    /\ ShortAt(tok.buffer, tok.pointer) \in S

\* One step of decodeWsq reads its marker as C10 says.
MarkerStep ==
    /\ pc = "soi" /\ MarkerAhead({SOI_WSQ}) => pc' = "tables"
    /\ pc = "soi" /\ MarkerAhead(0 .. 65535 \ {SOI_WSQ}) => FailsWith("No SOI marker")
    /\ pc = "tables" /\ MarkerAhead(PreFrameMarkers) =>
          /\ frame'.marker = ShortAt(tok.buffer, tok.pointer)
          /\ ~FailsWith("No SOF, Table, or comment marker")
    /\ pc = "tables" /\ MarkerAhead({SOF_WSQ}) => pc' = "frame"
    /\ pc = "tables" /\ MarkerAhead({EOI_WSQ}) => FailsWith("Invalid table marker")
    /\ pc = "tables" /\ MarkerAhead(0 .. 65535 \ PreFrameMarkers) =>
          FailsWith("No SOF, Table, or comment marker")
    /\ pc = "huffstart" /\ MarkerAhead(PreBlockMarkers) =>
          /\ pc' = "huff"
          /\ huff'.marker = ShortAt(tok.buffer, tok.pointer)
    /\ pc = "huffstart" /\ MarkerAhead(0 .. 65535 \ PreBlockMarkers) =>
          FailsWith("No SOB, Table, or comment marker")
    /\ pc = "huff" /\ huff.marker \in PreBlockMarkers \ {SOB_WSQ, EOI_WSQ} /\ pc' = "huff" =>
          huff'.marker \in PreBlockMarkers
    /\ pc = "huff" /\ FailsWith("No SOB, Table, or comment marker") =>
          ShortAt(tok.buffer, tok'.pointer - 2) \notin PreBlockMarkers

\* C10: the marker reader takes FFA0 alone in the SOI context, {DTT, DQT,
\* DHT, SOF, COM, EOI} before the frame and {DTT, DQT, DHT, SOB, COM, EOI}
\* before a block; any other value fails with the message of its context,
\* and an EOI taken before the frame fails with 'Invalid table marker'.
C10_MarkerSets == [][MarkerStep]_vars

\* An EOI taken before the frame that made the call fail.
C10_Witness ==
    /\ pc = "error"
    /\ frame.marker = EOI_WSQ
    /\ wsqError.msg = "Invalid table marker"

\* The eight bits of a byte, most significant first.
ByteBits(b) == [i \in 1 .. 8 |-> (b \div 2 ^ (8 - i)) % 2]

\* The first bits, at most n, of the entropy-coded data from byte offset pos:
\* FF 00 stands for the byte FF, and the data ends at the end of the buffer
\* and before an FF that no 00 follows.
RECURSIVE PayloadBits(_, _, _)
PayloadBits(buffer, pos, n) ==
    IF n <= 0 \/ pos >= Len(buffer) THEN <<>>
    ELSE IF buffer[pos + 1] # 255
    THEN ByteBits(buffer[pos + 1]) \o PayloadBits(buffer, pos + 1, n - 8)
    ELSE IF pos + 1 < Len(buffer) /\ buffer[pos + 2] = 0
    THEN ByteBits(255) \o PayloadBits(buffer, pos + 2, n - 8)
    ELSE <<>>

\* The bits not yet taken: the unread bits of nextByte, then the data.
BitsAhead(token, h, n) ==
    SubSeq(ByteBits(h.nextByte), 9 - h.bitCount, 8) \o PayloadBits(token.buffer, token.pointer, n)

RECURSIVE BitsValue(_)
BitsValue(bits) ==
    IF bits = <<>> THEN 0 ELSE 2 * BitsValue(SubSeq(bits, 1, Len(bits) - 1)) + bits[Len(bits)]

\* The unsigned value of the next n bits, when the data has that many.
Operand(token, h, n) ==
    IF Len(BitsAhead(token, h, n)) >= n
    THEN Some(BitsValue(SubSeq(BitsAhead(token, h, n), 1, n)))
    ELSE None

\* qdata and ip after the values vals are stored from ip on: a store past
\* the end of the typed array is dropped, ip counts it all the same.
Stored(h, vals) ==
    /\ pc' = "huff"
    /\ huff'.ip = h.ip + Len(vals)
    /\ huff'.qdata = [i \in 1 .. Len(h.qdata) |->
                        IF i - 1 >= h.ip /\ i - 1 < h.ip + Len(vals)
                        THEN vals[i - h.ip] ELSE h.qdata[i]]

Zeros(n) == [i \in 1 .. n |-> 0]

\* The step fails and no coefficient is written.
NothingWritten == pc' = "error" /\ huff' = huff

\* With(v, F) for an operand v that must exist.
OperandStored(h, opt, vals(_)) ==
    IF opt = None THEN NothingWritten ELSE Stored(h, vals(opt[1]))

\* What the loop does with the decoded value v, the reader being at (t, h).
SymbolEffect(v, t, h) ==
    CASE v \in 1 .. 100   -> Stored(h, Zeros(v)) /\ tok' = t
      [] v \in 107 .. 254 -> Stored(h, <<v - 180>>) /\ tok' = t
      [] v = 101 -> OperandStored(h, Operand(t, h, 8), LAMBDA n : <<n>>)
      [] v = 102 -> OperandStored(h, Operand(t, h, 8), LAMBDA n : <<0 - n>>)
      [] v = 103 -> OperandStored(h, Operand(t, h, 16), LAMBDA n : <<n>>)
      [] v = 104 -> OperandStored(h, Operand(t, h, 16), LAMBDA n : <<0 - n>>)
      [] v = 105 -> OperandStored(h, Operand(t, h, 8), LAMBDA n : Zeros(n))
      [] v = 106 -> OperandStored(h, Operand(t, h, 16), LAMBDA n : Zeros(n))
      [] OTHER   -> NothingWritten /\ wsqError'.msg = "Invalid Huffman code"

\* The loop decodes a symbol and takes its step.
SymbolDecoded ==
    /\ pc = "huff"
    /\ huff.marker = 0
    /\ tok' # tok \/ huff' # huff \/ pc' # pc
    /\ decodeDataMem(tok, huff).ok
    /\ decodeDataMem(tok, huff).v \in 0 .. 255

SymbolStep ==
    SymbolDecoded =>
        SymbolEffect(decodeDataMem(tok, huff).v, decodeDataMem(tok, huff).token,
                     decodeDataMem(tok, huff).h)

\* C19: a decoded Huffman value v makes the loop write v zeros for 1..100;
\* the next 8-bit value for 101 and its negation for 102; the next 16-bit
\* value for 103 and its negation for 104; n zeros for the 8-bit count n
\* after 105 and the 16-bit count n after 106; v - 180 for 107..254; and fail
\* with 'Invalid Huffman code', nothing written, for 0 and 255.
C19_SymbolTable == [][SymbolStep]_vars

\* The byte at offset pos of the buffer, -1 past its end.
ByteAhead(pos) == IF pos < Len(tok.buffer) THEN tok.buffer[pos + 1] ELSE 0 - 1

\* The bit reader is at a byte boundary of the entropy-coded data.
AtByteBoundary == pc = "huff" /\ huff.marker = 0 /\ huff.bitCount = 0

\* A step of the Huffman loop.
HuffStep == pc = "huff" /\ (tok' # tok \/ huff' # huff \/ pc' # pc)

NoCoefficient == huff'.qdata = huff.qdata /\ huff'.ip = huff.ip

\* FF 00 at a byte boundary gives the bits of FF, both bytes being consumed.
StuffedByte ==
    AtByteBoundary /\ ByteAhead(tok.pointer) = 255 /\ ByteAhead(tok.pointer + 1) = 0 =>
        LET r == getCNextbitsWSQ(tok, huff, 1)
        IN  /\ r.ok
            /\ r.v = 1
            /\ r.token.pointer = tok.pointer + 2
            /\ r.h.bitCount = 7
            /\ r.h.nextByte = 127
            /\ r.h.marker = 0
            /\ BitsAhead(tok, huff, 8) = ByteBits(255)

\* A marker met while the bits of a code are fetched: at the first bit, and
\* at a later one.
SymbolAbandoned ==
    /\ HuffStep /\ AtByteBoundary /\ ByteAhead(tok.pointer) = 255
         /\ ByteAhead(tok.pointer + 1) > 0 =>
          /\ pc' = "huff"
          /\ huff'.marker = 255 * 256 + ByteAhead(tok.pointer + 1)
          /\ tok'.pointer = tok.pointer + 2
          /\ NoCoefficient
    /\ HuffStep /\ huff.marker = 0 /\ decodeDataMem(tok, huff).ok
         /\ decodeDataMem(tok, huff).v = 0 - 1 =>
          /\ pc' = "huff"
          /\ huff'.marker = 255 * 256 + ByteAhead(tok'.pointer - 1)
          /\ ByteAhead(tok'.pointer - 2) = 255
          /\ ByteAhead(tok'.pointer - 1) > 0
          /\ NoCoefficient

\* What the loop does next with a marker other than 0.
MarkerRouted ==
    HuffStep /\ huff.marker # 0 =>
        CASE huff.marker = EOI_WSQ -> pc' = "unquantize" /\ huff' = huff /\ tok' = tok
          [] huff.marker = SOB_WSQ ->
                \/ pc' = "error"
                \/ /\ pc' = "huff"
                   /\ huff'.bitCount = 0
                   /\ huff'.marker = 0
                   /\ huff'.hufftableId = ByteAhead(tok.pointer + 2)
                   /\ tok'.pointer = tok.pointer + 3
                   /\ NoCoefficient
          [] huff.marker \in {DTT_WSQ, DQT_WSQ, DHT_WSQ, COM_WSQ} ->
                \/ pc' = "error"
                \/ /\ pc' = "huff"
                   /\ huff'.marker \in PreBlockMarkers
                   /\ NoCoefficient
                   /\ huff.marker = DTT_WSQ =>
                         tok'.tableDTT.lodef = 1 /\ tok'.tableDTT.hidef = 1
                   /\ huff.marker = DQT_WSQ => tok'.tableDQT.dqtDef = 1
                   /\ huff.marker = DHT_WSQ =>
                         \E i \in 1 .. MAX_DHT_TABLES : tok'.tableDHT[i].tabdef = 1
                   /\ huff.marker = COM_WSQ =>
                         /\ tok'.tableDTT = tok.tableDTT
                         /\ tok'.tableDQT = tok.tableDQT
                         /\ tok'.tableDHT = tok.tableDHT
          [] OTHER -> pc' = "error" /\ wsqError'.kind = "WsqDecodeError" /\ huff' = huff

\* C20: while the bits of a Huffman code are fetched, FF 00 gives the eight
\* bits of FF and both bytes are consumed; FF followed by a byte b other than
\* 0 abandons the symbol without a coefficient written, and the loop then
\* routes the marker FF b: EOI ends the decoding, SOB starts a block with the
\* bit reader at a byte boundary, DTT, DQT, DHT and COM are processed as
\* tables, any other value fails with a WsqDecodeError.
C20_MarkerInBits == []StuffedByte /\ [][SymbolAbandoned /\ MarkerRouted]_vars

\* A block that a marker met in the code bits started, after a coefficient.
C20_Witness ==
    /\ pc = "huff"
    /\ huff.marker = 0
    /\ huff.bitCount = 0
    /\ huff.nextByte = 255
    /\ huff.ip > 0
    /\ ShortAt(tok.buffer, tok.pointer - 5) = SOB_WSQ

\* Where the first n bits of the entropy-coded data from pos end: the offset
\* of the byte that PayloadBits stops at.
RECURSIVE PayloadEnd(_, _, _)
PayloadEnd(buffer, pos, n) ==
    IF n <= 0 \/ pos >= Len(buffer) THEN pos
    ELSE IF buffer[pos + 1] # 255 THEN PayloadEnd(buffer, pos + 1, n - 8)
    ELSE IF pos + 1 < Len(buffer) /\ buffer[pos + 2] = 0
    THEN PayloadEnd(buffer, pos + 2, n - 8)
    ELSE pos

\* The n-bit operand read at (t, h) runs into FF followed by a byte other
\* than 0 before it has its n bits.
MarkerInOperand(t, h, n) ==
    /\ Len(BitsAhead(t, h, n)) < n
    /\ PayloadEnd(t.buffer, t.pointer, n) + 1 < Len(t.buffer)
    /\ t.buffer[PayloadEnd(t.buffer, t.pointer, n) + 1] = 255
    /\ t.buffer[PayloadEnd(t.buffer, t.pointer, n) + 2] # 0

OperandBits(v) == IF v \in {101, 102, 105} THEN 8 ELSE 16

\* The symbol decoded at this step has an operand that a marker cuts short.
OperandCut ==
    /\ SymbolDecoded
    /\ decodeDataMem(tok, huff).v \in 101 .. 106
    /\ MarkerInOperand(decodeDataMem(tok, huff).token, decodeDataMem(tok, huff).h,
                       OperandBits(decodeDataMem(tok, huff).v))

OperandCutStep ==
    OperandCut =>
        /\ pc' = "error"
        /\ wsqError'.kind = "WsqDecodeError"
        /\ wsqError'.msg = "getCNextbitsWSQ: No stuffed zeros"
        /\ NoCoefficient

\* C21: FF followed by a byte other than 0, met while the 8-bit or 16-bit
\* operand of a symbol 101..106 is read, fails the decode with 'No stuffed
\* zeros' whatever the number of bits left in the current byte; no operand is
\* completed with a bit that is not payload data, and no coefficient is
\* written for the symbol.
C21_MarkerInOperand == [][OperandCutStep]_vars

\* ------------------------------------------------------------------------
\* CLI helpers (src/unnamed/part_003): resolveFingerPosition, filterRecords
\* ------------------------------------------------------------------------

\* Longest list of records handed to filterRecords.
MaxHelperRecords == 2

\* The JavaScript values resolveFingerPosition can return.
JsNull == [t |-> "null", v |-> 0]

JsNumber(n) == [t |-> "number", v |-> n]

JsUndefined == [t |-> "undefined", v |-> 0]

\* Members every plain object inherits from Object.prototype.
JsFunction == [t |-> "function", v |-> 0]

JsObject == [t |-> "object", v |-> 0]

\* The keys of FINGER_NAMES (src/src/constants.js): the values are non-empty
\* labels.
FINGER_NAMES == [n \in 1 .. 14 |-> "name"]

FINGER_ALIASES ==
       (<<114, 105, 103, 104, 116, 95, 116, 104, 117, 109, 98>> :> 1)    \* right_thumb
    @@ (<<114, 105, 103, 104, 116, 95, 105, 110, 100, 101, 120>> :> 2)    \* right_index
    @@ (<<114, 105, 103, 104, 116, 95, 109, 105, 100, 100, 108, 101>> :> 3)    \* right_middle
    @@ (<<114, 105, 103, 104, 116, 95, 114, 105, 110, 103>> :> 4)    \* right_ring
    @@ (<<114, 105, 103, 104, 116, 95, 108, 105, 116, 116, 108, 101>> :> 5)    \* right_little
    @@ (<<108, 101, 102, 116, 95, 116, 104, 117, 109, 98>> :> 6)    \* left_thumb
    @@ (<<108, 101, 102, 116, 95, 105, 110, 100, 101, 120>> :> 7)    \* left_index
    @@ (<<108, 101, 102, 116, 95, 109, 105, 100, 100, 108, 101>> :> 8)    \* left_middle
    @@ (<<108, 101, 102, 116, 95, 114, 105, 110, 103>> :> 9)    \* left_ring
    @@ (<<108, 101, 102, 116, 95, 108, 105, 116, 116, 108, 101>> :> 10)    \* left_little
    @@ (<<112, 108, 97, 105, 110, 95, 114, 105, 103, 104, 116, 95, 116, 104, 117, 109, 98>> :> 11)    \* plain_right_thumb
    @@ (<<112, 108, 97, 105, 110, 95, 108, 101, 102, 116, 95, 116, 104, 117, 109, 98>> :> 12)    \* plain_left_thumb
    @@ (<<112, 108, 97, 105, 110, 95, 114, 105, 103, 104, 116, 95, 102, 111, 117, 114>> :> 13)    \* plain_right_four
    @@ (<<112, 108, 97, 105, 110, 95, 108, 101, 102, 116, 95, 102, 111, 117, 114>> :> 14)    \* plain_left_four

\* The names of the members of Object.prototype that are functions.
PrototypeFunctions ==
    {<<99, 111, 110, 115, 116, 114, 117, 99, 116, 111, 114>>,    \* constructor
     <<116, 111, 83, 116, 114, 105, 110, 103>>,    \* toString
     <<118, 97, 108, 117, 101, 79, 102>>,    \* valueOf
     <<104, 97, 115, 79, 119, 110, 80, 114, 111, 112, 101, 114, 116, 121>>,    \* hasOwnProperty
     <<105, 115, 80, 114, 111, 116, 111, 116, 121, 112, 101, 79, 102>>,    \* isPrototypeOf
     <<112, 114, 111, 112, 101, 114, 116, 121, 73, 115, 69, 110, 117, 109, 101, 114, 97, 98, 108, 101>>,    \* propertyIsEnumerable
     <<116, 111, 76, 111, 99, 97, 108, 101, 83, 116, 114, 105, 110, 103>>}    \* toLocaleString

\* obj[key] on a plain object literal whose own values are numbers: an own
\* property, else a member inherited from Object.prototype, else undefined.
Property(obj, key) ==
    IF key \in DOMAIN obj THEN JsNumber(obj[key])
    ELSE IF key \in PrototypeFunctions THEN JsFunction
    ELSE IF key = <<95, 95, 112, 114, 111, 116, 111, 95, 95>> THEN JsObject
    ELSE JsUndefined

\* The truthiness of a value.
Truthy(value) ==
    \/ value.t \in {"function", "object"}
    \/ value.t = "number" /\ value.v # 0

\* str.replace(/[\s-]/g, '_') on 7-bit strings.
ReplaceSpaceDash(str) ==
    [i \in 1 .. Len(str) |-> IF IsSpace(str[i]) \/ str[i] = 45 THEN 95 ELSE str[i]]

ValidationError(msg) == [kind |-> "ValidationError", msg |-> msg]

NoHelperError == [kind |-> "none", msg |-> ""]

Returns(value) == [ok |-> TRUE, value |-> value, err |-> NoHelperError]

Throws(err) == [ok |-> FALSE, value |-> JsUndefined, err |-> err]

\* resolveFingerPosition(finger); finger is None for null and undefined.
resolveFingerPosition(finger) ==
    IF finger = None \/ finger = Some(<<>>) THEN Returns(JsNull)
    ELSE LET num   == ParseInt(finger)
             alias == ReplaceSpaceDash(ToLowerCase(finger[1]))
         IN  IF ~num.nan /\ num.v \in DOMAIN FINGER_NAMES THEN Returns(JsNumber(num.v))
             ELSE IF Truthy(Property(FINGER_ALIASES, alias))
             THEN Returns(Property(FINGER_ALIASES, alias))
             ELSE Throws(ValidationError("Unknown finger"))

\* filterRecords that hands back an empty selection.
filterRecords_AllowEmpty(recs, opt) ==
    IF opt = None \/ opt = Some(<<>>) THEN Returns(recs)
    ELSE LET pos == resolveFingerPosition(opt)
         IN  IF ~pos.ok THEN pos
             ELSE Returns(SelectSeq(recs, LAMBDA r : JsNumber(r.fingerPosition) = pos.value))

\* filterRecords(records, fingerOpt)
filterRecords(recs, opt) ==
    IF opt = None \/ opt = Some(<<>>) THEN Returns(recs)
    ELSE LET pos      == resolveFingerPosition(opt)
             filtered == SelectSeq(recs, LAMBDA r : JsNumber(r.fingerPosition) = pos.value)
         IN  IF ~pos.ok THEN pos
             ELSE IF Len(filtered) = 0
             THEN Throws(ValidationError("No fingerprint record found"))
             ELSE Returns(filtered)

\* The finger arguments of the generated calls.
FingerInputs ==
    {None, Some(<<>>),
     Some(<<49>>),    \* '1'
     Some(<<49, 52>>),    \* '14'
     Some(<<48>>),    \* '0'
     Some(<<49, 53>>),    \* '15'
     Some(<<51>>),    \* '3'
     Some(<<48, 51>>),    \* '03'
     Some(<<51, 97, 98, 99>>),    \* '3abc'
     Some(<<32, 55>>),    \* ' 7'
     Some(<<45, 49>>),    \* '-1'
     Some(<<49, 46, 53>>),    \* '1.5'
     Some(<<57, 57>>),    \* '99'
     Some(<<97, 98, 99>>),    \* 'abc'
     Some(<<114, 105, 103, 104, 116, 95, 116, 104, 117, 109, 98>>),    \* 'right_thumb'
     Some(<<82, 105, 103, 104, 116, 45, 84, 104, 117, 109, 98>>),    \* 'Right-Thumb'
     Some(<<82, 73, 71, 72, 84, 32, 84, 72, 85, 77, 66>>),    \* 'RIGHT THUMB'
     Some(<<114, 105, 103, 104, 116, 9, 116, 104, 117, 109, 98>>),    \* 'right<TAB>thumb'
     Some(<<108, 101, 102, 116, 95, 105, 110, 100, 101, 120>>),    \* 'left_index'
     Some(<<76, 101, 102, 116, 32, 73, 110, 100, 101, 120>>),    \* 'Left Index'
     Some(<<112, 108, 97, 105, 110, 95, 108, 101, 102, 116, 95, 102, 111, 117, 114>>),    \* 'plain_left_four'
     Some(<<112, 108, 97, 105, 110, 45, 114, 105, 103, 104, 116, 32, 102, 111, 117, 114>>),    \* 'plain-right four'
     Some(<<114, 105, 103, 104, 116, 95, 95, 116, 104, 117, 109, 98>>),    \* 'right__thumb'
     Some(<<114, 105, 103, 104, 116>>),    \* 'right'
     Some(<<116, 104, 117, 109, 98>>),    \* 'thumb'
     Some(<<99, 111, 110, 115, 116, 114, 117, 99, 116, 111, 114>>),    \* 'constructor'
     Some(<<67, 111, 110, 115, 116, 114, 117, 99, 116, 111, 114>>),    \* 'Constructor'
     Some(<<95, 95, 112, 114, 111, 116, 111, 95, 95>>),    \* '__proto__'
     Some(<<45, 45, 112, 114, 111, 116, 111, 45, 45>>),    \* '--proto--'
     Some(<<116, 111, 115, 116, 114, 105, 110, 103>>),    \* 'tostring'
     Some(<<118, 97, 108, 117, 101, 111, 102>>)    \* 'valueof'
    }

\* The finger positions of the generated records.
RecordPositions == {1, 3, 14}

\* The generated record lists: the idc of a record is its rank.
RecordLists ==
    {[i \in 1 .. Len(q) |-> [idc |-> i, fingerPosition |-> q[i]]] :
        q \in SeqsUpTo(RecordPositions, MaxHelperRecords)}

HelpersInit ==
    /\ FnIdle
    /\ EftIdle
    /\ WsqIdle
    /\ fingerOpt \in FingerInputs
    /\ helperRecords \in RecordLists
    /\ hpc = "ready"
    /\ helperResult = None

\* How a helper call ends.
HelperEnd(call, r) ==
    /\ hpc' = IF r.ok THEN "returned" ELSE "thrown"
    /\ helperResult' = Some([call |-> call, ok |-> r.ok, value |-> r.value, err |-> r.err])
    /\ UNCHANGED <<fingerOpt, helperRecords>>

HelperResolve ==
    /\ UNCHANGED <<evars, wvars, fvars>>
    /\ hpc = "ready"
    /\ HelperEnd("resolveFingerPosition", resolveFingerPosition(fingerOpt))

HelperFilter ==
    /\ UNCHANGED <<evars, wvars, fvars>>
    /\ hpc = "ready"
    /\ HelperEnd("filterRecords", filterRecords(helperRecords, fingerOpt))

HelpersNext == HelperResolve \/ HelperFilter

SpecHelpers == HelpersInit /\ [][HelpersNext]_vars

\* ------------------------------------------------------------------------
\* Properties of the helpers
\* ------------------------------------------------------------------------

\* The call that ended was one of this helper.
Called(call) == hpc \in {"returned", "thrown"} /\ helperResult[1].call = call

EmptySelector == fingerOpt = None \/ fingerOpt = Some(<<>>)

\* C16: resolveFingerPosition returns null for null, undefined and '';
\* n for a decimal string denoting an integer n in 1..14; the mapped position
\* for an alias after lower-casing and replacing '-' and whitespace by '_';
\* raises ValidationError for every other string; its result is always null
\* or an integer in 1..14.
C16_ResolveContract ==
    Called("resolveFingerPosition") =>
        LET r == helperResult[1]
        IN  /\ IF EmptySelector THEN r.ok /\ r.value = JsNull
               ELSE IF IsInteger(fingerOpt[1]) /\ ParseInt(fingerOpt).v \in 1 .. 14
               THEN r.ok /\ r.value = JsNumber(ParseInt(fingerOpt).v)
               ELSE IF ReplaceSpaceDash(ToLowerCase(fingerOpt[1])) \in DOMAIN FINGER_ALIASES
               THEN /\ r.ok
                    /\ r.value = JsNumber(FINGER_ALIASES[ReplaceSpaceDash(ToLowerCase(fingerOpt[1]))])
               ELSE ~r.ok /\ r.err.kind = "ValidationError"
            /\ r.ok => r.value = JsNull \/ (r.value.t = "number" /\ r.value.v \in 1 .. 14)

\* The records of the input whose fingerPosition is the value pos.
Matching(pos) ==
    SelectSeq(helperRecords, LAMBDA rec : JsNumber(rec.fingerPosition) = pos)

FilterOutcome ==
    Called("filterRecords") =>
        LET r   == helperResult[1]
            pos == resolveFingerPosition(fingerOpt)
        IN  /\ IF EmptySelector THEN r.ok /\ r.value = helperRecords
               ELSE IF ~pos.ok \/ Matching(pos.value) = <<>>
               THEN ~r.ok /\ r.err.kind = "ValidationError"
               ELSE r.ok /\ r.value = Matching(pos.value)
            /\ ~EmptySelector /\ r.ok =>
                  /\ r.value # <<>>
                  /\ \A i \in 1 .. Len(r.value) : JsNumber(r.value[i].fingerPosition) = pos.value
                  /\ \A i \in 1 .. Len(r.value) - 1 : r.value[i].idc < r.value[i + 1].idc

\* C17: filterRecords returns its input unchanged for an empty selector;
\* otherwise exactly the records whose fingerPosition is the resolved
\* position, in their original order; it raises ValidationError when no
\* record matches, never returns an empty list for a non-empty selector and
\* never modifies its input.
C17_FilterContract == []FilterOutcome /\ [][helperRecords' = helperRecords]_vars

\* A selection by alias that kept some records and dropped another.
C17_Witness ==
    /\ Called("filterRecords")
    /\ fingerOpt = Some(<<82, 105, 103, 104, 116, 45, 84, 104, 117, 109, 98>>)
    /\ helperResult[1].ok
    /\ Len(helperResult[1].value) = 1
    /\ Len(helperRecords) = 2
    /\ helperRecords[1].fingerPosition = 3


\* ------------------------------------------------------------------------
\* The subband trees on their own (lines 414-690)
\* ------------------------------------------------------------------------

\* Largest width and height of a tree built on its own.
MaxTreeDim == 33

\* Nothing else runs while a function is called on its own.
OthersIdle == EftIdle /\ WsqIdle /\ HelpersIdle

\* The tokens buildWSQTrees is called with: a new one, and one that holds
\* the trees of another image.
TreeTokens(width, height) ==
    {initialize(TokenNew(<<>>)),
     buildWSQTrees(initialize(TokenNew(<<>>)), height + 1, width + 2)}

TreesInit ==
    /\ OthersIdle
    /\ \E width \in 1 .. MaxTreeDim, height \in 1 .. MaxTreeDim :
         \E token \in TreeTokens(width, height) :
            fnArgs = [width |-> width, height |-> height, token |-> token]
    /\ fpc = "buildWSQTrees"
    /\ fnResult = None

TreesBuild ==
    /\ UNCHANGED <<evars, wvars, hvars>>
    /\ fpc = "buildWSQTrees"
    /\ fnResult' = buildWSQTrees(fnArgs.token, fnArgs.width, fnArgs.height)
    /\ fpc' = "returned"
    /\ UNCHANGED fnArgs

SpecTrees == TreesInit /\ [][TreesBuild]_vars

TreesBuilt == fpc = "returned" /\ "qtree" \in DOMAIN fnResult

\* Rectangles a and b have no cell in common.
Disjoint(a, b) ==
    \/ a.lenx = 0 \/ a.leny = 0 \/ b.lenx = 0 \/ b.leny = 0
    \/ a.x + a.lenx <= b.x \/ b.x + b.lenx <= a.x
    \/ a.y + a.leny <= b.y \/ b.y + b.leny <= a.y

\* Rectangle a lies in the image of width by height.
Inside(a, width, height) ==
    /\ a.lenx >= 0 /\ a.leny >= 0
    /\ a.x >= 0 /\ a.y >= 0
    /\ a.x + a.lenx <= width /\ a.y + a.leny <= height

RECURSIVE AreaSum(_, _)
AreaSum(qtree, n) ==
    IF n = 0 THEN 0 ELSE AreaSum(qtree, n - 1) + qtree[n].lenx * qtree[n].leny

\* The first n entries of the tree are rectangles of the image, no two with
\* a cell in common.
DisjointRectangles(qtree, n, width, height) ==
    /\ \A i \in 1 .. n : Inside(qtree[i], width, height)
    /\ \A i \in 1 .. n : \A j \in i + 1 .. n : Disjoint(qtree[i], qtree[j])

\* The tree is the one a new token gets for the same width and height.
SameForAnyToken ==
    fnResult.qtree = buildWSQTrees(initialize(TokenNew(<<>>)), fnArgs.width,
                                   fnArgs.height).qtree

\* C22: the rectangles of qtree entries 0..59 are pairwise disjoint and their
\* union is the whole image [0, width) x [0, height), their areas adding up
\* to width * height; the tree depends on width and height alone.
C22_ActivePartition ==
    TreesBuilt =>
        /\ DisjointRectangles(fnResult.qtree, NUM_SUBBANDS, fnArgs.width, fnArgs.height)
        /\ AreaSum(fnResult.qtree, NUM_SUBBANDS) = fnArgs.width * fnArgs.height
        /\ SameForAnyToken

\* C22, as the trees are built: the rectangles of all 64 qtree entries are
\* pairwise disjoint and their union is the whole image; entries 0..59 leave
\* out the rectangles of entries 60..63, which together are the image right
\* of column ceil(width / 2) and below row ceil(height / 2); the tree depends
\* on width and height alone.
C22_FullPartition ==
    TreesBuilt =>
        /\ DisjointRectangles(fnResult.qtree, Q_TREELEN, fnArgs.width, fnArgs.height)
        /\ AreaSum(fnResult.qtree, Q_TREELEN) = fnArgs.width * fnArgs.height
        /\ AreaSum(fnResult.qtree, NUM_SUBBANDS) =
             fnArgs.width * fnArgs.height
               - (fnArgs.width \div 2) * (fnArgs.height \div 2)
        /\ \A i \in NUM_SUBBANDS + 1 .. Q_TREELEN :
              /\ fnResult.qtree[i].x >= HalfUp(fnArgs.width)
              /\ fnResult.qtree[i].y >= HalfUp(fnArgs.height)
        /\ SameForAnyToken

\* The trees of an image in which every one of the 64 rectangles has cells,
\* built in a token that held other trees.
C22_Witness ==
    /\ TreesBuilt
    /\ \A i \in 1 .. Q_TREELEN : fnResult.qtree[i].lenx > 0 /\ fnResult.qtree[i].leny > 0
    /\ fnArgs.token.qtree # <<>>
    /\ fnArgs.width % 2 = 1


\* ------------------------------------------------------------------------
\* The Huffman decode tables on their own (lines 821-886)
\* ------------------------------------------------------------------------

\* Most codes of one length, and most lengths with codes, in a count vector.
MaxCodes == 2

MaxLengths == 3

\* The count vector with counts[k] codes of length lengths[k].
CountVector(lengths, counts) ==
    [L \in 1 .. MAX_HUFFBITS |->
       IF \E k \in 1 .. Len(lengths) : lengths[k] = L
       THEN counts[CHOOSE k \in 1 .. Len(lengths) : lengths[k] = L]
       ELSE 0]

Ascending(q) == \A k \in 1 .. Len(q) - 1 : q[k] < q[k + 1]

\* The code lengths of the generated vectors: neighbours and gaps, the
\* shortest and the longest.
CodeLengths == {1, 2, 3, 4, 7, 8, 15, 16}

CountVectors ==
    {CountVector(lengths, counts) :
       <<lengths, counts>> \in
         UNION {{lc \in [1 .. n -> CodeLengths] \X [1 .. n -> 1 .. MaxCodes] :
                   Ascending(lc[1])} : n \in 0 .. MaxLengths}}

HuffTablesInit ==
    /\ OthersIdle
    /\ \E huffbits \in CountVectors : fnArgs = [huffbits |-> huffbits]
    /\ fpc = "buildHuffsizes"
    /\ fnResult = None

HuffSizes ==
    /\ UNCHANGED <<evars, wvars, hvars>>
    /\ fpc = "buildHuffsizes"
    /\ fnResult' = [huffcodeTable |-> buildHuffsizes(fnArgs.huffbits, MAX_HUFFCOUNTS_WSQ)]
    /\ fpc' = "buildHuffcodes"
    /\ UNCHANGED fnArgs

HuffCodes ==
    /\ UNCHANGED <<evars, wvars, hvars>>
    /\ fpc = "buildHuffcodes"
    /\ fnResult' = [huffcodeTable |-> buildHuffcodes(fnResult.huffcodeTable)]
    /\ fpc' = "genDecodeTable"
    /\ UNCHANGED fnArgs

HuffDecodeTable ==
    /\ UNCHANGED <<evars, wvars, hvars>>
    /\ fpc = "genDecodeTable"
    /\ fnResult' = [huffcodeTable |-> fnResult.huffcodeTable,
                    tables |-> genDecodeTable(fnResult.huffcodeTable, fnArgs.huffbits)]
    /\ fpc' = "returned"
    /\ UNCHANGED fnArgs

HuffTablesNext == HuffSizes \/ HuffCodes \/ HuffDecodeTable

SpecHuffTables == HuffTablesInit /\ [][HuffTablesNext]_vars

\* The running code at length L: 0 at length 1, and from one length to the
\* next the codes of the length are counted and the code is shifted left.
RECURSIVE RunningCode(_, _)
RunningCode(huffbits, L) ==
    IF L <= 1 THEN 0 ELSE (RunningCode(huffbits, L - 1) + huffbits[L - 1]) * 2

\* The codes of the table in order: the first is 0, a code of the same length
\* as the one before is that code plus 1, and a code d bits longer is that
\* code plus 1 shifted left d times.
CanonicalCodes(t) ==
    /\ Len(t) > 1 => t[1].code = 0
    /\ \A k \in 2 .. Len(t) - 1 :
          t[k].code = (t[k - 1].code + 1) * 2 ^ (t[k].size - t[k - 1].size)

DecodeTablesOf(huffbits, d) ==
    \A L \in 1 .. MAX_HUFFBITS :
       IF huffbits[L] = 0 THEN d.maxcode[L + 1] = 0 - 1
       ELSE /\ d.valptr[L + 1] = SumSeq(SubSeq(huffbits, 1, L - 1))
            /\ d.mincode[L + 1] = RunningCode(huffbits, L)
            /\ d.maxcode[L + 1] = d.mincode[L + 1] + huffbits[L] - 1

\* C23: for a count vector huffbits the decode tables have, for each length L
\* in 1..16, maxcode[L] = -1 when there is no code of the length, and
\* otherwise valptr[L] the number of shorter codes, mincode[L] the first
\* canonical code of the length and maxcode[L] = mincode[L] + huffbits[L - 1]
\* - 1; the codes count up by 1 within a length and are shifted left once
\* for each bit of added length.
C23_DecodeTables ==
    fpc = "returned" /\ "tables" \in DOMAIN fnResult =>
        /\ DecodeTablesOf(fnArgs.huffbits, fnResult.tables)
        /\ CanonicalCodes(fnResult.huffcodeTable)

\* The tables of a vector with codes of three lengths, two of them more than
\* one bit apart, and two codes of the middle length.
C23_Witness ==
    /\ fpc = "returned"
    /\ "tables" \in DOMAIN fnResult
    /\ fnArgs.huffbits[2] = 1
    /\ fnArgs.huffbits[4] = 2
    /\ fnArgs.huffbits[16] = 1
    /\ fnResult.tables.maxcode[5] = 5
    /\ fnResult.tables.mincode[17] = 6 * 2 ^ 12


\* ------------------------------------------------------------------------
\* The DHT handler on its own (lines 323-370)
\* ------------------------------------------------------------------------

\* Most sub-tables of a generated DHT block.
MaxSubTables == 2

\* The bytes of a sub-table: the id, the 16 counts, the values.  Its kinds
\* are a table without codes, one with a code of length 1, and one with a
\* code of length 1 and two of length 2.
SubTableBytes(id, kind) ==
    <<id>> \o [L \in 1 .. MAX_HUFFBITS |->
                 CASE kind = "one" /\ L = 1 -> 1
                   [] kind = "three" /\ L = 1 -> 1
                   [] kind = "three" /\ L = 2 -> 2
                   [] OTHER -> 0]
           \o (CASE kind = "one" -> <<107 + id>>
                 [] kind = "three" -> <<101, 180, 254>>
                 [] OTHER -> <<>>)

SubTableChoices ==
    {SubTableBytes(id, kind) : id \in {0, 7, 8}, kind \in {"none", "one", "three"}}

\* A DHT block behind its marker: the declared length counts the length
\* field and the first k sub-tables, delta bytes more or less; bytes follow
\* the last sub-table or none do.
DhtBlocks ==
    {[subs |-> subs, k |-> k, delta |-> delta, tail |-> tail] :
       subs \in SeqsUpTo(SubTableChoices, MaxSubTables) \ {<<>>},
       k \in 0 .. MaxSubTables, delta \in {0 - 1, 0, 1},
       tail \in {<<>>, <<255, 161>>}}

RECURSIVE FlattenFirst(_, _)
FlattenFirst(segs, k) ==
    IF k = 0 \/ segs = <<>> THEN <<>> ELSE Head(segs) \o FlattenFirst(Tail(segs), k - 1)

DhtBuffer(b) ==
    U16(DHT_WSQ) \o U16(Max(0, 2 + Len(FlattenFirst(b.subs, b.k)) + b.delta))
                 \o Flatten(b.subs) \o b.tail

DhtInit ==
    /\ OthersIdle
    /\ \E b \in DhtBlocks :
         fnArgs = [token |-> [initialize(TokenNew(DhtBuffer(b))) EXCEPT !.pointer = 2]]
    /\ fpc = "getCHuffmanTableWSQ"
    /\ fnResult = None

DhtHandle ==
    /\ UNCHANGED <<evars, wvars, hvars>>
    /\ fpc = "getCHuffmanTableWSQ"
    /\ fnResult' = getCHuffmanTableWSQ(fnArgs.token)
    /\ fpc' = IF getCHuffmanTableWSQ(fnArgs.token).ok THEN "returned" ELSE "thrown"
    /\ UNCHANGED fnArgs

SpecDht == DhtInit /\ [][DhtHandle]_vars

\* The sub-tables that the bytes from pos up to end hold, one after another:
\* for each its id, its 16 counts and its values.
RECURSIVE SubTablesIn(_, _, _)
SubTablesIn(buffer, pos, end) ==
    IF pos >= end \/ pos + 1 + MAX_HUFFBITS > Len(buffer) THEN <<>>
    ELSE LET counts == SubSeq(buffer, pos + 2, pos + 1 + MAX_HUFFBITS)
             after  == pos + 1 + MAX_HUFFBITS + SumSeq(counts)
         IN  IF after > Len(buffer) THEN <<>>
             ELSE <<[id |-> buffer[pos + 1], huffbits |-> counts,
                     huffvalues |-> SubSeq(buffer, pos + 2 + MAX_HUFFBITS, after)]>>
                  \o SubTablesIn(buffer, after, end)

\* The declared length of the block and the sub-tables inside it.
DhtDeclared == ShortAt(fnArgs.token.buffer, fnArgs.token.pointer)

DhtNamed ==
    SubTablesIn(fnArgs.token.buffer, fnArgs.token.pointer + 2,
                fnArgs.token.pointer + DhtDeclared)

\* Table t of the token holds the sub-table sub.
HoldsSubTable(t, sub) ==
    /\ t.tabdef = 1
    /\ t.huffbits = sub.huffbits
    /\ SubSeq(t.huffvalues, 1, Len(sub.huffvalues)) = sub.huffvalues

\* C24: when the DHT handler returns, the read position is the block start
\* plus the declared block length, every table id that a sub-table of the
\* block names is defined, and of two sub-tables with the same id the table
\* holds the later one.
C24_DhtBlock ==
    fpc = "returned" /\ "token" \in DOMAIN fnResult =>
        /\ fnResult.token.pointer = fnArgs.token.pointer + DhtDeclared
        /\ DhtNamed # <<>>
        /\ \A i \in 1 .. Len(DhtNamed) :
              /\ DhtNamed[i].id < MAX_DHT_TABLES
              /\ fnResult.token.tableDHT[DhtNamed[i].id + 1].tabdef = 1
              /\ (\A j \in i + 1 .. Len(DhtNamed) : DhtNamed[j].id # DhtNamed[i].id)
                    => HoldsSubTable(fnResult.token.tableDHT[DhtNamed[i].id + 1], DhtNamed[i])

\* A block of two sub-tables with the same id and different values, read
\* to its end with bytes behind it.
C24_Witness ==
    /\ fpc = "returned"
    /\ "token" \in DOMAIN fnResult
    /\ Len(DhtNamed) = 2
    /\ DhtNamed[1].id = DhtNamed[2].id
    /\ DhtNamed[1].huffvalues # DhtNamed[2].huffvalues
    /\ fnResult.token.pointer < Len(fnResult.token.buffer)


\* ------------------------------------------------------------------------
\* The block header in the Huffman loop (lines 756-771)
\* ------------------------------------------------------------------------

\* The loop is at an SOB marker with the three bytes of its header ahead.
AtBlockHeader ==
    /\ HuffStep
    /\ huff.marker = SOB_WSQ
    /\ tok.pointer + 3 <= Len(tok.buffer)

\* A DHT sub-table with this id was read: the table of the id is defined.
TableRead(id) == id < MAX_DHT_TABLES /\ tok.tableDHT[id + 1].tabdef = 1

BlockHeaderStep ==
    AtBlockHeader =>
        IF TableRead(ByteAhead(tok.pointer + 2))
        THEN /\ pc' = "huff"
             /\ DecodeTablesOf(tok.tableDHT[ByteAhead(tok.pointer + 2) + 1].huffbits,
                               [maxcode |-> huff'.maxcode, mincode |-> huff'.mincode,
                                valptr |-> huff'.valptr])
             /\ huff'.hufftableId = ByteAhead(tok.pointer + 2)
             /\ huff'.bitCount = 0
             /\ huff'.marker = 0
             /\ NoCoefficient
        ELSE /\ pc' = "error"
             /\ wsqError'.kind = "WsqDecodeError"
             /\ wsqError'.msg = "Huffman table undefined"
             /\ NoCoefficient

\* C25: for every huff_id of an SOB block header, the decode fails with
\* WsqDecodeError 'Huffman table <id> undefined', before a symbol of the block
\* is decoded, when no DHT sub-table with the id was read earlier; when one
\* was, the decode tables are rebuilt from it and the bit reader restarts
\* with no buffered bits.
C25_BlockHeader == [][BlockHeaderStep]_vars


\* ------------------------------------------------------------------------
\* The filter tables across the synthesis passes (lines 985-1001, 1054-1262)
\* ------------------------------------------------------------------------

\* wsqReconstruct is at a node of its loop.
AtNode == pc = "node" /\ node >= 0

\* The first joinLets of the node wsqReconstruct is at (lines 989-994).
FirstPass ==
    joinLets(fdataTemp, fdata, 0,
             tok.wtree[node + 1].y * frame.width + tok.wtree[node + 1].x,
             tok.wtree[node + 1].lenx, tok.wtree[node + 1].leny, 1, frame.width,
             tok.tableDTT.hifilt, tok.tableDTT.hisz,
             tok.tableDTT.lofilt, tok.tableDTT.losz, tok.wtree[node + 1].invcl)

\* Each of the two passes of a node hands back the hi-pass table it got.
PassKeepsTables ==
    AtNode =>
        /\ FirstPass.hi = tok.tableDTT.hifilt
        /\ ReconstructRows(tok, fdata, FirstPass, frame.width, node).token.tableDTT
             = tok.tableDTT

\* The tables do not change from one node to the next, nor afterwards.
TablesKept == pc = "node" => tok'.tableDTT = tok.tableDTT

\* C26: every joinLets call leaves the lo-pass and the hi-pass filter table
\* as they were at its entry, for odd and for even filter lengths: the
\* negation of the hi-pass table at the entry for an even length is undone
\* at the exit, and all 40 passes of a decode see the same tables.
C26_FilterTablesKept == []PassKeepsTables /\ [][TablesKept]_vars

\* A decode with filters of even length has made all its passes.
C26_Witness ==
    /\ pc = "done"
    /\ tok.tableDTT.losz = 2
    /\ tok.tableDTT.hisz = 2
    /\ ~FIsZero(tok.tableDTT.hifilt[1])
    /\ node < 0


\* ------------------------------------------------------------------------
\* unquantize on its own (lines 937-970)
\* ------------------------------------------------------------------------

\* Largest width and height of an image unquantize is called for.
MaxBandDim == 6

\* The quantization tables: qBin 2 for every subband, for the even ones
\* only, for all but subbands 0 and 52; zBin 3 and binCenter 1.  And the
\* table that no DQT has filled.
QuantTables ==
    {[binCenter |-> FInt(1),
      qBin |-> [c \in 1 .. MAX_SUBBANDS |-> IF c \in zero THEN FZero ELSE FInt(2)],
      zBin |-> [c \in 1 .. MAX_SUBBANDS |-> FInt(3)],
      dqtDef |-> 1] :
       zero \in {{}, {c \in 1 .. MAX_SUBBANDS : c % 2 = 0}, {1, 53}}}
    \cup {initialize(TokenNew(<<>>)).tableDQT}

\* The quantized arrays: 1, 2, 3, ... and -2, -1, 0, 1, ...
QuantizedArrays(n) == {[i \in 1 .. n |-> i], [i \in 1 .. n |-> i - 3]}

UnquantizeInit ==
    /\ OthersIdle
    /\ \E width \in 1 .. MaxBandDim, height \in 1 .. MaxBandDim :
         \E table \in QuantTables, sip \in QuantizedArrays(width * height) :
            fnArgs = [token |-> [buildWSQTrees(initialize(TokenNew(<<>>)), width, height)
                                   EXCEPT !.tableDQT = table],
                      sip |-> sip, width |-> width, height |-> height]
    /\ fpc = "unquantize"
    /\ fnResult = None

UnquantizeCall ==
    /\ UNCHANGED <<evars, wvars, hvars>>
    /\ fpc = "unquantize"
    /\ fnResult' = unquantize(fnArgs.token, fnArgs.sip, fnArgs.width, fnArgs.height)
    /\ fpc' = IF unquantize(fnArgs.token, fnArgs.sip, fnArgs.width, fnArgs.height).ok
              THEN "returned" ELSE "thrown"
    /\ UNCHANGED fnArgs

SpecUnquantize == UnquantizeInit /\ [][UnquantizeCall]_vars

\* Subband cnt is not skipped.
BandUsed(cnt) == ~FIsZero(fnArgs.token.tableDQT.qBin[cnt + 1])

\* The quantized values taken before subband cnt: a cell each for the cells
\* of the earlier subbands that are not skipped.
RECURSIVE TakenBefore(_)
TakenBefore(cnt) ==
    IF cnt = 0 THEN 0
    ELSE TakenBefore(cnt - 1)
           + (IF BandUsed(cnt - 1)
              THEN fnArgs.token.qtree[cnt].lenx * fnArgs.token.qtree[cnt].leny
              ELSE 0)

\* The coefficient of subband cnt for the quantized value v.
Coefficient(v, cnt) ==
    LET t == fnArgs.token.tableDQT
    IN  IF v = 0 THEN FZero
        ELSE IF v > 0
        THEN FAdd(FMul(t.qBin[cnt + 1], FSub(FInt(v), t.binCenter)),
                  FMul(t.zBin[cnt + 1], Frac(1, 2)))
        ELSE FSub(FMul(t.qBin[cnt + 1], FAdd(FInt(v), t.binCenter)),
                  FMul(t.zBin[cnt + 1], Frac(1, 2)))

\* The cell of the raster at column x and row y.
CellAt(fip, x, y) == fip[y * fnArgs.width + x + 1]

\* The cells of subband cnt hold, row by row, the coefficients of the
\* quantized values from TakenBefore(cnt) on, or 0 when it is skipped.
BandFilled(fip, cnt) ==
    LET q == fnArgs.token.qtree[cnt + 1]
    IN  \A row \in 0 .. q.leny - 1 : \A col \in 0 .. q.lenx - 1 :
           CellAt(fip, q.x + col, q.y + row) =
             IF BandUsed(cnt)
             THEN Coefficient(fnArgs.sip[TakenBefore(cnt) + row * q.lenx + col + 1], cnt)
             ELSE FZero

\* C27: unquantize goes through subbands 0..59 in order and through the
\* cells of a subband's rectangle row by row, taking one quantized value for
\* each cell from the front of the array; a subband with q_bin 0 takes no
\* value and its cells stay 0; the quantized value 0 gives 0; and no more
\* than width * height values are taken.
C27_Unquantize ==
    fpc = "returned" /\ "sip" \in DOMAIN fnArgs =>
        /\ Len(fnResult.v) = fnArgs.width * fnArgs.height
        /\ \A cnt \in 0 .. NUM_SUBBANDS - 1 : BandFilled(fnResult.v, cnt)
        /\ TakenBefore(NUM_SUBBANDS) <= fnArgs.width * fnArgs.height

\* A call with a skipped subband that has cells before a used one of more
\* than one row and column, and a quantized value 0.
C27_Witness ==
    /\ fpc = "returned"
    /\ "sip" \in DOMAIN fnArgs
    /\ ~BandUsed(52) /\ BandUsed(53)
    /\ fnArgs.token.qtree[53].lenx > 0 /\ fnArgs.token.qtree[53].leny > 1
    /\ fnArgs.token.qtree[54].lenx > 1 /\ fnArgs.token.qtree[54].leny > 1
    /\ fnArgs.sip[3] = 0


\* ------------------------------------------------------------------------
\* Termination of decodeWsq (lines 120-125, 331-339, 747-816)
\* ------------------------------------------------------------------------

\* A pass of the pre-frame table loop or of the Huffman loop after which the
\* loop goes on.
LoopStep ==
    /\ pc \in {"tables", "huff"}
    /\ pc' = pc
    /\ tok' # tok \/ huff' # huff \/ frame' # frame

\* The bits read so far: those of the bytes read less those still buffered.
BitsRead(t, h, at) == 8 * t.pointer - (IF at = "huff" THEN h.bitCount ELSE 0)

PositionAdvances == LoopStep => tok'.pointer > tok.pointer

BitsAdvance ==
    LoopStep =>
        /\ tok'.pointer >= tok.pointer
        /\ BitsRead(tok', huff', pc') > BitsRead(tok, huff, pc)
        /\ pc = "tables" => tok'.pointer > tok.pointer

\* A sub-table read from any position of the input ends past it or fails.
SubTableAdvances ==
    pc \notin {"idle", "done", "error"} =>
        \A left \in {0 - 1, 0, 40} :
           LET r == getCHuffmanTable(tok, MAX_HUFFCOUNTS_WSQ, left, FALSE)
           IN  r.ok => /\ r.token.pointer >= tok.pointer + MAX_HUFFBITS + 1
                       /\ r.v.bytesLeft < left

\* The pass the loop is about to make, taken from the state it is in: the
\* pass ends the loop, by a throw or by its marker, or reads on.
PassAdvances ==
    /\ pc = "tables" =>
          LET r == getCMarkerWSQ(tok, TBLS_N_SOF)
          IN  r.ok /\ r.v # SOF_WSQ /\ getCTableWSQ(r.token, r.v).ok =>
                 getCTableWSQ(r.token, r.v).token.pointer > tok.pointer
    /\ pc = "huff" /\ huff.marker \notin {0, SOB_WSQ, EOI_WSQ} =>
          LET t == getCTableWSQ(tok, huff.marker)
          IN  t.ok /\ getCMarkerWSQ(t.token, TBLS_N_SOB).ok =>
                 getCMarkerWSQ(t.token, TBLS_N_SOB).token.pointer > tok.pointer
    /\ pc = "huff" /\ huff.marker = SOB_WSQ =>
          LET r == BlockHeader(tok, huff)
          IN  r.ok => r.token.pointer > tok.pointer
    /\ pc = "huff" /\ huff.marker = 0 =>
          LET r == DecodeSymbol(tok, huff)
          IN  r.ok => BitsRead(r.token, r.h, pc) > BitsRead(tok, huff, pc)

\* decodeWsq is at one of its steps until it has returned or thrown.
AtStep ==
    pc \in {"soi", "tables", "frame", "huffstart", "huff", "unquantize", "reconstruct",
            "node", "done", "error"}

Ended == pc \in {"done", "error"}

\* C28: decodeWsq terminates on every input, and every pass of the
\* pre-frame table loop, of the DHT sub-table loop (also when the declared
\* block length is not at the end of a sub-table) and of the Huffman symbol
\* loop ends the loop or leaves the read position greater than it was.
C28_PositionAdvances ==
    /\ <>Ended
    /\ []SubTableAdvances
    /\ [][PositionAdvances]_vars

\* C28, as the loops run: decodeWsq terminates on every input; a pass of the
\* pre-frame table loop or of the DHT sub-table loop ends the loop or leaves
\* the read position greater; a pass of the Huffman loop ends the loop or
\* reads at least one bit, the read position staying where it is when the
\* symbol comes from bits already buffered.
C28_BitsAdvance ==
    /\ <>Ended
    /\ []AtStep
    /\ []PassAdvances
    /\ []SubTableAdvances
    /\ [][BitsAdvance]_vars

\* A symbol decoded from buffered bits, the read position unchanged, in a
\* decode that ends.
C28_Witness ==
    /\ pc = "huff"
    /\ huff.marker = 0
    /\ huff.bitCount \in 1 .. 6
    /\ huff.ip > 1
    /\ DecodeSymbol(tok, huff).ok
    /\ DecodeSymbol(tok, huff).token.pointer = tok.pointer
    /\ DecodeSymbol(tok, huff).h.marker = 0

\* ------------------------------------------------------------------------
\* The read position (Token, lines 68-103; getCComment, lines 374-377)
\* ------------------------------------------------------------------------

Running == pc \notin {"idle", "done", "error"}

\* A read that started at token t: it left the position at or after t's, or
\* failed with 'Unexpected end of data' at t's position without moving it.
ReadKept(r, t) ==
    IF r.ok THEN r.token.pointer >= t.pointer
    ELSE /\ r.token.pointer = t.pointer
         /\ r.err = WsqDecodeError("Unexpected end of data", t.pointer)

PositionInside == Running => tok.pointer >= 0 /\ tok.pointer <= Len(tok.buffer)

PositionKept == Running /\ pc' # "idle" => tok'.pointer >= tok.pointer

\* The byte, short and int reads, from wherever decodeWsq has come to (the
\* int read where its value is below 2^31).
PrimitivesKept ==
    Running => /\ ReadKept(readByte(tok), tok)
               /\ ReadKept(readShort(tok), tok)
               /\ tok.pointer + 4 > Len(tok.buffer) \/ Byte(tok, 0) < 128 =>
                     ReadKept(readInt(tok), tok)

\* The token after the marker of the table that decodeWsq is about to read,
\* when it is about to read one.
TableAhead ==
    IF pc = "tables" /\ getCMarkerWSQ(tok, TBLS_N_SOF).ok
                     /\ getCMarkerWSQ(tok, TBLS_N_SOF).v # SOF_WSQ
    THEN Some(getCMarkerWSQ(tok, TBLS_N_SOF))
    ELSE IF pc = "huff" /\ huff.marker \notin {0, SOB_WSQ, EOI_WSQ}
    THEN Some(Ok(huff.marker, tok))
    ELSE None

\* Each table handler leaves the position at or after where it started.
HandlersKept ==
    \A m \in {i \in 1 .. Len(TableAhead) : TRUE} :
       LET t == getCTableWSQ(TableAhead[m].token, TableAhead[m].v)
       IN  t.ok => t.token.pointer >= TableAhead[m].token.pointer

\* The byte block read of a comment about to be read: readBytes(size) after
\* the comment's readShort().
CommentBlock ==
    IF TableAhead # None /\ TableAhead[1].v = COM_WSQ /\ readShort(TableAhead[1].token).ok
    THEN Some(readShort(TableAhead[1].token))
    ELSE None

ByteBlockKept ==
    CommentBlock # None =>
       ReadKept(readBytes(CommentBlock[1].token, CommentBlock[1].v - 2),
                CommentBlock[1].token)

\* C29: throughout a decode the read position never decreases and stays
\* within 0 .. input length; the byte, short, int and byte block reads and
\* the table handlers leave the position at or after where they started, a
\* comment of declared length 0 or 1 included, and a read past the end of
\* the input fails with 'Unexpected end of data' without moving the
\* position.
C29_PositionNeverDecreases ==
    /\ []PositionInside
    /\ []PrimitivesKept
    /\ []HandlersKept
    /\ []ByteBlockKept
    /\ [][PositionKept]_vars

\* Everything of C29 but the byte block read of a comment.
PositionKeptBetweenSteps ==
    /\ []PositionInside
    /\ []PrimitivesKept
    /\ []HandlersKept
    /\ [][PositionKept]_vars

\* A comment of declared length 0 or 1 is about to be read.
ShortComment == CommentBlock # None /\ CommentBlock[1].v \in {0, 1}

\* ------------------------------------------------------------------------
\* The lines of a synthesis pass (joinLets, lines 1076-1254)
\* ------------------------------------------------------------------------

MaxLine == 8

\* The samples on each side of the line in the arrays of a call.
Margin == 3

\* The 9-tap low-pass and 7-tap high-pass filters with every tap 1, and the
\* same with every tap 0: a sum of products with taps that are 1 is not 0
\* when one of the samples read is 1 and the others are 0.
Taps(n, v) == [i \in 1 .. n |-> FInt(v)]

\* A signal that is 1 at index at and 0 elsewhere.
Impulse(n, at) == [i \in 1 .. n |-> IF i - 1 = at THEN FInt(1) ELSE FZero]

\* The calls joinLets(newdata, olddata, ...) on one line of length len2 that
\* starts Margin samples into its arrays: with the low-pass taps 1 and one
\* sample of olddata 1 (probe "lo"), the same for the high-pass taps (probe
\* "hi"), and with every tap and sample 1 and newdata not yet written, NaN,
\* (probe "write").
JoinCalls ==
    {[probe |-> probe, at |-> at,
      newdata |-> IF probe = "write" THEN [i \in 1 .. stride * (len2 + 2 * Margin) |-> FNaN]
                  ELSE FZeros(stride * (len2 + 2 * Margin)),
      olddata |-> IF probe = "write" THEN Taps(stride * (len2 + 2 * Margin), 1)
                  ELSE Impulse(stride * (len2 + 2 * Margin), at),
      newIndex |-> stride * Margin, oldIndex |-> stride * Margin,
      len1 |-> 1, len2 |-> len2, pitch |-> stride * (len2 + 2 * Margin), stride |-> stride,
      hi |-> Taps(7, IF probe = "lo" THEN 0 ELSE 1), hsz |-> 7,
      lo |-> Taps(9, IF probe = "hi" THEN 0 ELSE 1), lsz |-> 9,
      inv |-> inv] :
        probe \in {"lo", "hi", "write"}, at \in 0 .. 2 * (MaxLine + 2 * Margin) - 1,
        len2 \in 1 .. MaxLine, stride \in {1, 2}, inv \in {0, 1}}

JoinLetsInit ==
    /\ OthersIdle
    /\ fnArgs \in {c \in JoinCalls :
                     /\ c.at < Len(c.olddata)
                     /\ c.probe = "write" => c.at = 0}
    /\ fpc = "joinLets"
    /\ fnResult = None

JoinLetsCall ==
    /\ UNCHANGED <<evars, wvars, hvars>>
    /\ fpc = "joinLets"
    /\ fnResult' = joinLets(fnArgs.newdata, fnArgs.olddata, fnArgs.newIndex,
                            fnArgs.oldIndex, fnArgs.len1, fnArgs.len2, fnArgs.pitch,
                            fnArgs.stride, fnArgs.hi, fnArgs.hsz, fnArgs.lo, fnArgs.lsz,
                            fnArgs.inv).newdata
    /\ fpc' = "returned"
    /\ UNCHANGED fnArgs

SpecJoinLets == JoinLetsInit /\ [][JoinLetsCall]_vars

\* The indexes of the output line and of its low-pass and high-pass halves
\* in olddata: lp0 .. lp1 and hp0 .. hp1 in steps of stride.
LineCells(c) == {c.newIndex + k * c.stride : k \in 0 .. c.len2 - 1}

LoCells(c) ==
    LET s == JoinSetup(c.len2, c.stride, c.hi, c.hsz, c.lo, c.lsz)
        lopass == IF c.inv # 0 THEN c.oldIndex + c.stride * s.hlen ELSE c.oldIndex
    IN  {lopass + k * c.stride : k \in 0 .. s.llen - 1}

HiCells(c) ==
    LET s == JoinSetup(c.len2, c.stride, c.hi, c.hsz, c.lo, c.lsz)
        hipass == IF c.inv # 0 THEN c.oldIndex ELSE c.oldIndex + c.stride * s.llen
    IN  {hipass + k * c.stride : k \in 0 .. s.hlen - 1}

JoinReturned == fpc = "returned" /\ fnArgs.lsz = 9 /\ fnArgs.hsz = 7 /\ fnArgs.len1 = 1

\* No sample outside cells was read: the output is 0 everywhere when the
\* one sample that is 1 lies outside cells.
ReadsWithin(cells) ==
    fnArgs.at \notin cells => \A i \in 1 .. Len(fnResult) : FIsZero(fnResult[i])

\* The cells written are those of the line.
WritesOnLine ==
    \A i \in 1 .. Len(fnResult) : ~fnResult[i].nan <=> i - 1 \in LineCells(fnArgs)

LineBounds ==
    JoinReturned =>
       /\ fnArgs.probe = "lo" => ReadsWithin(LoCells(fnArgs))
       /\ fnArgs.probe = "hi" => ReadsWithin(HiCells(fnArgs))
       /\ fnArgs.probe = "write" => WritesOnLine

\* C30: a synthesis pass with the 9-tap low-pass and 7-tap high-pass filters
\* over a line of length len2 >= 1 writes exactly the len2 samples at the
\* line offsets 0 .. len2 - 1 and reads its low-pass inputs inside lp0 .. lp1
\* and its high-pass inputs inside hp0 .. hp1, lines of length 1, 2 and 3
\* included.
C30_LineBounds == LineBounds

\* The same for the lines of length 5 and more.
LongLineBounds == fnArgs # None /\ fnArgs.len2 >= 5 => LineBounds

====
